---- MODULE Spec2Model ----
(***************************************************************************)
(* LIC Imaris Log Analyzer: the LogData constructor pipeline                *)
(*   findFileFormat -> parseDataInto2DVector -> extractEvents               *)
(*   -> getConcurrentUsage -> getUsageDurationUser -> getUsageDurationHost  *)
(*   -> getDeniedRequests                                                   *)
(* A std::string is a sequence of one-character strings, so that find,      *)
(* tokenizing, atoi, toString and append are computed character by          *)
(* character.                                                               *)
(***************************************************************************)
EXTENDS Integers, Sequences, FiniteSets, TLC

\* ------------------------------------------------------------------ strings

S_OUT == <<"O","U","T">>
S_IN == <<"I","N">>
S_DENY == <<"D","E","N","Y">>
S_START == <<"S","T","A","R","T">>
S_SHUTDOWN == <<"S","H","U","T","D","O","W","N">>
S_PRODUCT == <<"P","R","O","D","U","C","T">>
\* "RLM Report Log Format"
S_Marker == <<"R","L","M"," ","R","e","p","o","r","t"," ","L","o","g"," ","F","o","r","m","a","t">>
\* "(Still checked out)"
S_StillCheckedOut == <<"(","S","t","i","l","l"," ","c","h","e","c","k","e","d"," ","o","u","t",")">>
\* what boost prints for a time_duration that is not_a_date_time
S_NotADateTime == <<"n","o","t","-","a","-","d","a","t","e","-","t","i","m","e">>

Digits == <<"0","1","2","3","4","5","6","7","8","9">>

IsDigit(c) == \E d \in 1..10 : Digits[d] = c

DigitVal(c) == (CHOOSE d \in 1..10 : Digits[d] = c) - 1

\* std::string::find(sub) != npos
Find(s, sub) ==
    \E i \in 1..(Len(s) - Len(sub) + 1) : SubSeq(s, i, i + Len(sub) - 1) = sub

\* tokenizeString(delimiter, s, out): the maximal runs of non-delimiter characters
RECURSIVE TokAcc(_, _, _, _)
TokAcc(delim, s, cur, acc) ==
    IF s = << >> THEN (IF cur = << >> THEN acc ELSE Append(acc, cur))
    ELSE IF Head(s) = delim
         THEN TokAcc(delim, Tail(s), << >>, IF cur = << >> THEN acc ELSE Append(acc, cur))
         ELSE TokAcc(delim, Tail(s), Append(cur, Head(s)), acc)

tokenizeString(delim, s) == TokAcc(delim, s, << >>, << >>)

\* atoi: the value of the leading run of decimal digits, 0 when there is none
RECURSIVE AtoiAcc(_, _)
AtoiAcc(s, n) ==
    IF s = << >> \/ ~IsDigit(Head(s)) THEN n
    ELSE AtoiAcc(Tail(s), 10 * n + DigitVal(Head(s)))

atoi(s) ==
    IF s # << >> /\ Head(s) = "-" THEN 0 - AtoiAcc(Tail(s), 0)
    ELSE IF s # << >> /\ Head(s) = "+" THEN AtoiAcc(Tail(s), 0)
    ELSE AtoiAcc(s, 0)

\* toString(n): the decimal digits, with a leading "-" for a negative number
RECURSIVE DecimalDigits(_)
DecimalDigits(n) ==
    IF n < 10 THEN <<Digits[n + 1]>>
    ELSE DecimalDigits(n \div 10) \o <<Digits[(n % 10) + 1]>>

toString(n) == IF n < 0 THEN <<"-">> \o DecimalDigits(0 - n) ELSE DecimalDigits(n)

\* ------------------------------------------------------------------ inputs

\* The lines of the input file: the fields of a line are joined by one blank.
RECURSIVE Join(_)
Join(fields) ==
    IF fields = << >> THEN << >>
    ELSE IF Len(fields) = 1 THEN Head(fields)
    ELSE Head(fields) \o <<" ">> \o Join(Tail(fields))

X == <<"x">>
V1 == <<"v","1">>

\* An OUT line of the Report Log: 18 fields, the columns of RepOUTEventIndices.
OUTLine(date, time, s, count) ==
    Join(<<S_OUT, s.product, V1, X, s.user, s.host, X, X, count, s.reserved,
           s.handle, X, X, X, X, X, date, time>>)

\* An IN line: 13 fields, the columns of RepINEventIndices.
INLine(date, time, s, count) ==
    Join(<<S_IN, X, s.product, V1, s.user, s.host, X, X, count, s.reserved,
           s.handle, date, time>>)

\* A DENY line: 12 fields, the columns of RepDENYEventIndices.
DENYLine(date, time, s, reason) ==
    Join(<<S_DENY, s.product, V1, s.user, s.host, X, X, reason, X, X, date, time>>)

STARTLine(server, date, time) == Join(<<S_START, server, date, time>>)

SHUTLine(date, time) == Join(<<S_SHUTDOWN, X, X, date, time>>)

PRODUCTLine(product, count, limit) == Join(<<S_PRODUCT, product, V1, X, count, limit>>)

\* The line that carries the full date between the events of a Report Log.
YearLine(date, time) == Join(<<date, time>>)

MarkerLine == S_Marker \o <<" ","7">>
ISVLine == <<"0","3","/","1","4"," ","0","9",":","0","0"," ","(","i","s","v",")"," ","x">>
RLMLine == <<"0","3","/","1","4"," ","0","9",":","0","0"," ","(","r","l","m",")"," ","x">>
JunkLine == <<"x"," ","y"," ","z">>

PA == <<"p","A">>
PB == <<"p","B">>
Sess1 == [product |-> PA, user |-> <<"u","1">>, host |-> <<"h","X">>, handle |-> <<"7">>, reserved |-> <<"0">>]
Sess2 == [product |-> PA, user |-> <<"u","2">>, host |-> <<"h","Y">>, handle |-> <<"8">>, reserved |-> <<"1">>]
Sess3 == [product |-> PB, user |-> <<"u","1">>, host |-> <<"h","Y">>, handle |-> <<"7">>, reserved |-> <<"0">>]

\* Bounds of the input families.
MaxRows == 3
MaxYearRows == 3
MaxPad == 21
MaxTail == 2

SeqsUpTo(S, n) == UNION { [1..k -> S] : k \in 0..n }

\* Family 1: what the format detector sees: MaxPad or fewer junk lines, then
\* up to MaxTail lines that carry a marker, a legacy tag or nothing.
FormatInputs ==
    { [i \in 1..k |-> JunkLine] \o t :
        k \in 0..MaxPad, t \in SeqsUpTo({MarkerLine, ISVLine, RLMLine, JunkLine}, MaxTail) }

\* Family 2: a Report Log of one day: marker, START, then up to MaxRows event
\* lines; the line at position i is stamped 03/14 09:0i.
DayDate == <<"0","3","/","1","4">>
DayTime(i) == <<"0", "9", ":", "0", Digits[i + 1]>>
DayKinds ==
    { <<"OUT", Sess1, <<"1">>>>, <<"OUT", Sess2, <<"2">>>>, <<"OUT", Sess3, <<"1">>>>,
      <<"IN", Sess1, <<"0">>>>, <<"IN", Sess1, <<"1">>>>, <<"IN", Sess2, <<"0">>>>, <<"IN", Sess3, <<"1">>>>,
      <<"DENY", Sess2, <<"0">>>>, <<"SHUTDOWN", Sess1, X>>, <<"PRODUCT", Sess1, <<"5">>>>,
      <<"START", Sess1, X>> }
DayLine(k, i) ==
    CASE k[1] = "OUT" -> OUTLine(DayDate, DayTime(i), k[2], k[3])
      [] k[1] = "IN" -> INLine(DayDate, DayTime(i), k[2], k[3])
      [] k[1] = "DENY" -> DENYLine(DayDate, DayTime(i), k[2], k[3])
      [] k[1] = "SHUTDOWN" -> SHUTLine(DayDate, DayTime(i))
      [] k[1] = "PRODUCT" -> PRODUCTLine(k[2].product, k[3], <<"2">>)
      [] k[1] = "START" -> STARTLine(<<"s","r","v">>, <<"0","3","/","1","4","/","2","0","2","2">>, DayTime(i))
DayInputs ==
    { <<MarkerLine, STARTLine(<<"s","r","v">>, <<"0","3","/","1","4","/","2","0","2","2">>, <<"0","8",":","0","0">>)>>
        \o [i \in 1..Len(b) |-> DayLine(b[i], i)] : b \in SeqsUpTo(DayKinds, MaxRows) }

\* Family 3: a Report Log around midnight of December 31st: marker, then up to
\* MaxYearRows lines, with or without a line that carries the year before them.
YearLines ==
    { YearLine(<<"1","2","/","3","1","/","2","0","2","1">>, <<"2","3",":","0","0">>),
      STARTLine(<<"s","r","v">>, <<"0","1","/","0","1","/","2","0","2","2">>, <<"0","0",":","0","0">>),
      OUTLine(<<"1","2","/","3","1">>, <<"2","3",":","5","9">>, Sess1, <<"1">>),
      OUTLine(<<"0","1","/","0","1">>, <<"0","0",":","0","0">>, Sess2, <<"2">>),
      INLine(<<"0","1","/","0","1">>, <<"0","0",":","0","0">>, Sess1, <<"1">>),
      INLine(<<"0","1","/","0","1">>, <<"0","0",":","0","1">>, Sess2, <<"0">>),
      DENYLine(<<"1","2","/","3","1">>, <<"2","3",":","5","9">>, Sess3, <<"0">>),
      SHUTLine(<<"0","1","/","0","1">>, <<"0","0",":","0","0">>) }
YearInputs == { <<MarkerLine>> \o b : b \in SeqsUpTo(YearLines, MaxYearRows) }

\* Family 4: a Report Log that ends in an event line cut short: marker, START,
\* then the first n fields of a full event line, for every n below its length.
FullLines ==
    { OUTLine(DayDate, DayTime(1), Sess1, <<"1">>), INLine(DayDate, DayTime(1), Sess1, <<"0">>),
      DENYLine(DayDate, DayTime(1), Sess2, <<"0">>),
      STARTLine(<<"s","r","v">>, <<"0","3","/","1","4","/","2","0","2","2">>, DayTime(1)),
      SHUTLine(DayDate, DayTime(1)), PRODUCTLine(PA, <<"5">>, <<"2">>) }
CutLine(line, n) == Join(SubSeq(tokenizeString(" ", line), 1, n))
CutInputs ==
    UNION { { <<MarkerLine,
                STARTLine(<<"s","r","v">>, <<"0","3","/","1","4","/","2","0","2","2">>, <<"0","8",":","0","0">>),
                CutLine(line, n)>> : n \in 1..(Len(tokenizeString(" ", line)) - 1) } :
            line \in FullLines }

\* Family 5: a Report Log with rows that are no events: marker, START, then up
\* to MaxSkipRows lines that are empty, that begin with a field other than an
\* event kind ("OUTS"), or that are events.
MaxSkipRows == 2
EmptyLine == << >>
OtherLine ==
    LET l == OUTLine(DayDate, DayTime(1), Sess1, <<"1">>)
    IN  SubSeq(l, 1, 3) \o <<"S">> \o SubSeq(l, 4, Len(l))
SkipLines ==
    { EmptyLine, OtherLine, OUTLine(DayDate, DayTime(2), Sess2, <<"1">>),
      DENYLine(DayDate, DayTime(3), Sess2, <<"0">>), SHUTLine(DayDate, DayTime(4)) }
SkipInputs ==
    { <<MarkerLine, STARTLine(<<"s","r","v">>, <<"0","3","/","1","4","/","2","0","2","2">>, <<"0","8",":","0","0">>)>>
        \o b : b \in { c \in SeqsUpTo(SkipLines, MaxSkipRows) :
                         \E i \in 1..Len(c) : c[i] \in {EmptyLine, OtherLine} } }

Inputs == FormatInputs \cup DayInputs \cup YearInputs \cup CutInputs \cup SkipInputs

\* ------------------------------------------------------------------ state

VARIABLES
    pc,             \* the stage of the LogData constructor that runs next
    exception,      \* the exception that ended the constructor, or "none"
    m_rawData, m_fileFormat, m_allData, m_eventData,
    m_denialEvents, m_shutdownEvents, m_startEvents,
    m_uniqueProducts, m_uniqueUsers, m_uniqueHosts,
    m_eventYear, m_serverName, m_endTimeRow,
    row,            \* the loop variable of the stage that runs
    \* the local vectors of getConcurrentUsage
    licenseCountsByProduct, uniqueLicenseCountsByProduct, licenseCountByProductAndUser,
    maxLicenseCountsByProduct, maxreservedLicenseCountsByProduct, reservedLicenseUsageCount,
    m_usage, m_usageDurationu, m_usageDurationh,
    m_totalDurationu, m_totalDurationh, m_deniedRequest

vars == <<pc, exception, m_rawData, m_fileFormat, m_allData, m_eventData,
          m_denialEvents, m_shutdownEvents, m_startEvents,
          m_uniqueProducts, m_uniqueUsers, m_uniqueHosts,
          m_eventYear, m_serverName, m_endTimeRow, row,
          licenseCountsByProduct, uniqueLicenseCountsByProduct, licenseCountByProductAndUser,
          maxLicenseCountsByProduct, maxreservedLicenseCountsByProduct, reservedLicenseUsageCount,
          m_usage, m_usageDurationu, m_usageDurationh,
          m_totalDurationu, m_totalDurationh, m_deniedRequest>>

\* A size_t member the constructor does not initialize holds any value.
UninitSizeT == {0, 9}

NoException == [what |-> "none", row |-> 0]

\* loadDataFromFile has filled m_rawData; every other container is empty.
Init ==
    /\ m_rawData \in Inputs
    /\ pc = "findFileFormat"
    /\ exception = NoException
    /\ m_fileFormat = "Invalid"
    /\ m_allData = << >>
    /\ m_eventData = << >>
    /\ m_denialEvents = << >>
    /\ m_shutdownEvents = << >>
    /\ m_startEvents = << >>
    /\ m_uniqueProducts = << >>
    /\ m_uniqueUsers = << >>
    /\ m_uniqueHosts = << >>
    /\ m_eventYear = << >>
    /\ m_serverName = << >>
    /\ m_endTimeRow \in UninitSizeT
    /\ row = 0
    /\ licenseCountsByProduct = << >>
    /\ uniqueLicenseCountsByProduct = << >>
    /\ licenseCountByProductAndUser = << >>
    /\ maxLicenseCountsByProduct = << >>
    /\ maxreservedLicenseCountsByProduct = << >>
    /\ reservedLicenseUsageCount = << >>
    /\ m_usage = << >>
    /\ m_usageDurationu = << >>
    /\ m_usageDurationh = << >>
    /\ m_totalDurationu = << >>
    /\ m_totalDurationh = << >>
    /\ m_deniedRequest = << >>

\* vector::at(i), i counted from 0 as in the source
At(v, i) == v[i + 1]

\* ------------------------------------------------------------------ findFileFormat

\* Mutant of IsISVLine: the tag "(rlm)" is not looked for.
IsISVLine_AnyTag(line) ==
    /\ Find(line, <<"/">>)
    /\ Find(line, <<":">>)
    /\ Find(line, <<"(">>)
    /\ Find(line, <<")">>)

\* The legacy test of one line: it has "/", ":", "(" and ")" and not "(rlm)".
IsISVLine(line) ==
    /\ Find(line, <<"/">>)
    /\ Find(line, <<":">>)
    /\ Find(line, <<"(">>)
    /\ Find(line, <<")">>)
    /\ ~Find(line, <<"(","r","l","m",")">>)

\* linesToSearch is computed from this and from m_rawData.size()
LinesToSearch == 20

\* The bound of the scanning loop: the loop runs on line < m_rawData.size();
\* linesToSearch is computed and never used.
ScanLimit(rawData) == Len(rawData)

\* The scanning loop from line `line` (counted from 0): the format the first
\* deciding line gives, "Invalid" when no line decides.
RECURSIVE ScanFormat(_, _)
ScanFormat(rawData, line) ==
    IF line >= ScanLimit(rawData) THEN "Invalid"
    ELSE IF Find(At(rawData, line), S_Marker) THEN "ReportLog"
    ELSE IF IsISVLine(At(rawData, line)) THEN "ISVLog"
    ELSE ScanFormat(rawData, line + 1)

\* Mutant of FormatThrows: the legacy branch returns with the format ISVLog.
FormatThrows_InvalidOnly(format) == format = "Invalid"

\* findFileFormat returns only at the marker; the legacy branch and the end of
\* the loop throw InvalidFileFormatException.
FormatThrows(format) == format # "ReportLog"

FindFileFormat ==
    /\ pc = "findFileFormat"
    /\ LET format == ScanFormat(m_rawData, 0) IN
         /\ m_fileFormat' = format
         /\ IF FormatThrows(format)
            THEN /\ pc' = "failed"
                 /\ exception' = [what |-> "InvalidFileFormatException", row |-> 0]
            ELSE /\ pc' = "parseDataInto2DVector"
                 /\ exception' = exception
    /\ UNCHANGED <<m_rawData, m_allData, m_eventData, m_denialEvents, m_shutdownEvents,
                   m_startEvents, m_uniqueProducts, m_uniqueUsers, m_uniqueHosts,
                   m_eventYear, m_serverName, m_endTimeRow, row,
                   licenseCountsByProduct, uniqueLicenseCountsByProduct,
                   licenseCountByProductAndUser, maxLicenseCountsByProduct,
                   maxreservedLicenseCountsByProduct, reservedLicenseUsageCount,
                   m_usage, m_usageDurationu, m_usageDurationh,
                   m_totalDurationu, m_totalDurationh, m_deniedRequest>>

\* ------------------------------------------------------------------ parseDataInto2DVector

\* Every raw line is split into its fields on blanks.
ParseDataInto2DVector ==
    /\ pc = "parseDataInto2DVector"
    /\ m_allData' = [i \in 1..Len(m_rawData) |-> tokenizeString(" ", m_rawData[i])]
    /\ pc' = "extractEvents"
    /\ row' = 0
    /\ UNCHANGED <<exception, m_rawData, m_fileFormat, m_eventData, m_denialEvents,
                   m_shutdownEvents, m_startEvents, m_uniqueProducts, m_uniqueUsers,
                   m_uniqueHosts, m_eventYear, m_serverName, m_endTimeRow,
                   licenseCountsByProduct, uniqueLicenseCountsByProduct,
                   licenseCountByProductAndUser, maxLicenseCountsByProduct,
                   maxreservedLicenseCountsByProduct, reservedLicenseUsageCount,
                   m_usage, m_usageDurationu, m_usageDurationh,
                   m_totalDurationu, m_totalDurationh, m_deniedRequest>>

\* ------------------------------------------------------------------ extractEvents

\* enum eventIndices: the positions of an event record
IndexEvent == 0
IndexDate == 1
IndexTime == 2
IndexProduct == 3
IndexVersion == 4
IndexUser == 5
IndexHost == 6
IndexCount == 7
IndexHandle == 8

\* getEventIndices: the source columns of each kind, in record order
m_eventIndex == 0
m_OUTindices == <<0, 16, 17, 1, 2, 4, 5, 8, 10, 9>>
\* Mutant of m_INindices: the user and the host column are exchanged.
m_INindices_HostUser == <<0, 11, 12, 2, 3, 5, 4, 8, 10, 9>>
m_INindices == <<0, 11, 12, 2, 3, 4, 5, 8, 10, 9>>
m_DENYindices == <<0, 10, 11, 1, 2, 3, 4, 7, 7>>
m_STARTindices == <<0, 2, 3, 1>>
m_SHUTindices == <<0, 3, 4>>
m_PRODUCTindices == <<0, 1, 2, 4, 5>>
RepSTARTIndexDate == 2

\* getUniqueItems(name, list): the name is appended unless the list has it
getUniqueItems(name, list) ==
    IF \E i \in 1..Len(list) : list[i] = name THEN list ELSE Append(list, name)

\* loadEventIntoVector: the projection of the row by the column list. A row
\* with fewer fields than the list has entries gives EventDataException; a
\* longer row that still lacks a listed column makes at() throw out_of_range.
loadEventIntoVector(allDataRow, indices) ==
    IF Len(allDataRow) >= Len(indices)
    THEN IF \A col \in 1..Len(indices) : indices[col] < Len(allDataRow)
         THEN [what |-> "none",
               eventLine |-> [col \in 1..Len(indices) |-> At(allDataRow, indices[col])]]
         ELSE [what |-> "out_of_range", eventLine |-> << >>]
    ELSE [what |-> "EventDataException", eventLine |-> << >>]

\* The test of addYearToDate for an event of the first minute of a year.
IsRollover(date, timeVector) ==
    /\ date = <<"0","1","/","0","1">>
    /\ At(timeVector, 0) = <<"0","0">>
    /\ At(timeVector, 1) = <<"0","0">>

\* Mutant of addYearToDate: the incremented year is stamped on the record and
\* not stored as the ambient year.
addYearToDate_NoCarry(eventLine, year) ==
    LET currentDate == At(eventLine, IndexDate)
        timeVector == tokenizeString(":", At(eventLine, IndexTime))
    IN  IF currentDate = <<"0","1","/","0","1">> /\ Len(timeVector) < 2
        THEN [what |-> "out_of_range", eventLine |-> eventLine, year |-> year]
        ELSE LET newYear == IF IsRollover(currentDate, timeVector)
                            THEN toString(atoi(year) + 1)
                            ELSE year
             IN  [what |-> "none",
                  eventLine |-> [eventLine EXCEPT ![IndexDate + 1] = @ \o <<"/">> \o newYear],
                  year |-> year]

\* addYearToDate on the record just appended, with ambient year `year`:
\* the stamped record and the ambient year afterwards.
addYearToDate(eventLine, year) ==
    LET currentDate == At(eventLine, IndexDate)
        timeVector == tokenizeString(":", At(eventLine, IndexTime))
    IN  IF currentDate = <<"0","1","/","0","1">> /\ Len(timeVector) < 2
        THEN [what |-> "out_of_range", eventLine |-> eventLine, year |-> year]
        ELSE LET newYear == IF IsRollover(currentDate, timeVector)
                            THEN toString(atoi(year) + 1)
                            ELSE year
             IN  [what |-> "none",
                  eventLine |-> [eventLine EXCEPT ![IndexDate + 1] = @ \o <<"/">> \o newYear],
                  year |-> newYear]

\* The members extractEvents writes.
ExtractState ==
    [eventData |-> m_eventData, denialEvents |-> m_denialEvents,
     shutdownEvents |-> m_shutdownEvents, startEvents |-> m_startEvents,
     uniqueProducts |-> m_uniqueProducts, uniqueUsers |-> m_uniqueUsers,
     uniqueHosts |-> m_uniqueHosts, eventYear |-> m_eventYear,
     serverName |-> m_serverName, endTimeRow |-> m_endTimeRow, what |-> "none"]

\* Mutant of YearOfRow: the year is taken from the second part of the date.
YearOfRow_DayPart(allDataRow, year) ==
    IF Len(allDataRow) = 2 /\ Len(tokenizeString("/", At(allDataRow, 0))) = 3
    THEN At(tokenizeString("/", At(allDataRow, 0)), 1)
    ELSE year

\* A row that is the full date alone (two fields, the first of three parts
\* around "/") sets the ambient year.
YearOfRow(allDataRow, year) ==
    IF Len(allDataRow) = 2 /\ Len(tokenizeString("/", At(allDataRow, 0))) = 3
    THEN At(tokenizeString("/", At(allDataRow, 0)), 2)
    ELSE year

\* Mutant of ExtractLicenseEvent: the host of the record is not registered.
ExtractLicenseEvent_NoHost(S, allDataRow, indices, isDeny) ==
    LET ld == loadEventIntoVector(allDataRow, indices) IN
    IF ld.what # "none" THEN [S EXCEPT !.what = ld.what]
    ELSE LET ev == ld.eventLine
             st == addYearToDate(ev, S.eventYear)
             S1 == [S EXCEPT !.eventData = Append(S.eventData, ev),
                             !.uniqueProducts = getUniqueItems(At(ev, IndexProduct), @),
                             !.uniqueUsers = getUniqueItems(At(ev, IndexUser), @)]
         IN  IF st.what # "none" THEN [S1 EXCEPT !.what = st.what]
             ELSE [S1 EXCEPT !.eventData = Append(S.eventData, st.eventLine),
                             !.eventYear = st.year,
                             !.denialEvents = (IF isDeny THEN Append(@, st.eventLine) ELSE @),
                             !.endTimeRow = Len(S.eventData)]

\* Mutant of ExtractLicenseEvent: m_endTimeRow is not moved to the record.
ExtractLicenseEvent_NoEndRow(S, allDataRow, indices, isDeny) ==
    LET ld == loadEventIntoVector(allDataRow, indices) IN
    IF ld.what # "none" THEN [S EXCEPT !.what = ld.what]
    ELSE LET ev == ld.eventLine
             st == addYearToDate(ev, S.eventYear)
             S1 == [S EXCEPT !.eventData = Append(S.eventData, ev),
                             !.uniqueProducts = getUniqueItems(At(ev, IndexProduct), @),
                             !.uniqueUsers = getUniqueItems(At(ev, IndexUser), @),
                             !.uniqueHosts = getUniqueItems(At(ev, IndexHost), @)]
         IN  IF st.what # "none" THEN [S1 EXCEPT !.what = st.what]
             ELSE [S1 EXCEPT !.eventData = Append(S.eventData, st.eventLine),
                             !.eventYear = st.year,
                             !.denialEvents = (IF isDeny THEN Append(@, st.eventLine) ELSE @)]

\* The branch of an OUT, IN or DENY row.
ExtractLicenseEvent(S, allDataRow, indices, isDeny) ==
    LET ld == loadEventIntoVector(allDataRow, indices) IN
    IF ld.what # "none" THEN [S EXCEPT !.what = ld.what]
    ELSE LET ev == ld.eventLine
             st == addYearToDate(ev, S.eventYear)
             S1 == [S EXCEPT !.eventData = Append(S.eventData, ev),
                             !.uniqueProducts = getUniqueItems(At(ev, IndexProduct), @),
                             !.uniqueUsers = getUniqueItems(At(ev, IndexUser), @),
                             !.uniqueHosts = getUniqueItems(At(ev, IndexHost), @)]
         IN  IF st.what # "none" THEN [S1 EXCEPT !.what = st.what]
             ELSE [S1 EXCEPT !.eventData = Append(S.eventData, st.eventLine),
                             !.eventYear = st.year,
                             !.denialEvents = (IF isDeny THEN Append(@, st.eventLine) ELSE @),
                             !.endTimeRow = Len(S.eventData)]

\* Mutant of ExtractStart: the ambient year is not taken from the START row.
ExtractStart_KeepYear(S, allDataRow) ==
    LET ld == loadEventIntoVector(allDataRow, m_STARTindices) IN
    IF ld.what # "none" THEN [S EXCEPT !.what = ld.what]
    ELSE LET ev == ld.eventLine
             tempVector == tokenizeString("/", At(allDataRow, RepSTARTIndexDate))
             S1 == [S EXCEPT !.eventData = Append(S.eventData, ev),
                             !.serverName = At(ev, 3),
                             !.startEvents = Append(@, ev)]
         IN  IF Len(tempVector) < 3 THEN [S1 EXCEPT !.what = "out_of_range"]
             ELSE [S1 EXCEPT !.endTimeRow = Len(S.eventData)]

\* The branch of a START row.
ExtractStart(S, allDataRow) ==
    LET ld == loadEventIntoVector(allDataRow, m_STARTindices) IN
    IF ld.what # "none" THEN [S EXCEPT !.what = ld.what]
    ELSE LET ev == ld.eventLine
             tempVector == tokenizeString("/", At(allDataRow, RepSTARTIndexDate))
             S1 == [S EXCEPT !.eventData = Append(S.eventData, ev),
                             !.serverName = At(ev, 3),
                             !.startEvents = Append(@, ev)]
         IN  IF Len(tempVector) < 3 THEN [S1 EXCEPT !.what = "out_of_range"]
             ELSE [S1 EXCEPT !.eventYear = At(tempVector, 2),
                             !.endTimeRow = Len(S.eventData)]

\* Mutant of ExtractShutdown: m_endTimeRow is not moved to the SHUTDOWN record.
ExtractShutdown_NoEndRow(S, allDataRow) ==
    LET ld == loadEventIntoVector(allDataRow, m_SHUTindices) IN
    IF ld.what # "none" THEN [S EXCEPT !.what = ld.what]
    ELSE LET st == addYearToDate(ld.eventLine, S.eventYear) IN
         IF st.what # "none"
         THEN [S EXCEPT !.eventData = Append(S.eventData, ld.eventLine), !.what = st.what]
         ELSE [S EXCEPT !.eventData = Append(S.eventData, st.eventLine),
                        !.eventYear = st.year,
                        !.shutdownEvents = Append(@, st.eventLine)]

\* The branch of a SHUTDOWN row.
ExtractShutdown(S, allDataRow) ==
    LET ld == loadEventIntoVector(allDataRow, m_SHUTindices) IN
    IF ld.what # "none" THEN [S EXCEPT !.what = ld.what]
    ELSE LET st == addYearToDate(ld.eventLine, S.eventYear) IN
         IF st.what # "none"
         THEN [S EXCEPT !.eventData = Append(S.eventData, ld.eventLine), !.what = st.what]
         ELSE [S EXCEPT !.eventData = Append(S.eventData, st.eventLine),
                        !.eventYear = st.year,
                        !.shutdownEvents = Append(@, st.eventLine),
                        !.endTimeRow = Len(S.eventData)]

\* Mutant of ExtractProduct: the product of a PRODUCT row is not registered.
ExtractProduct_NoRegister(S, allDataRow) ==
    LET ld == loadEventIntoVector(allDataRow, m_PRODUCTindices) IN
    IF ld.what # "none" THEN [S EXCEPT !.what = ld.what]
    ELSE [S EXCEPT !.eventData = Append(S.eventData, ld.eventLine)]

\* The branch of a PRODUCT row.
ExtractProduct(S, allDataRow) ==
    LET ld == loadEventIntoVector(allDataRow, m_PRODUCTindices) IN
    IF ld.what # "none" THEN [S EXCEPT !.what = ld.what]
    ELSE [S EXCEPT !.eventData = Append(S.eventData, ld.eventLine),
                   !.uniqueProducts = getUniqueItems(At(ld.eventLine, 1), @)]

\* Mutant of ExtractRowResult: a first field that begins with "OUT" is taken
\* for an OUT.
ExtractRowResult_BeginsWithOUT(S0, allDataRow) ==
    LET S == [S0 EXCEPT !.eventYear = YearOfRow(allDataRow, S0.eventYear)] IN
    IF Len(allDataRow) > m_eventIndex
    THEN LET kind == At(allDataRow, m_eventIndex) IN
         CASE Len(kind) >= 3 /\ SubSeq(kind, 1, 3) = S_OUT ->
                ExtractLicenseEvent(S, allDataRow, m_OUTindices, FALSE)
           [] kind = S_IN -> ExtractLicenseEvent(S, allDataRow, m_INindices, FALSE)
           [] kind = S_DENY -> ExtractLicenseEvent(S, allDataRow, m_DENYindices, TRUE)
           [] kind = S_START -> ExtractStart(S, allDataRow)
           [] kind = S_SHUTDOWN -> ExtractShutdown(S, allDataRow)
           [] kind = S_PRODUCT -> ExtractProduct(S, allDataRow)
           [] OTHER -> S
    ELSE S

\* One iteration of the loop of extractEvents over m_allData.
ExtractRowResult(S0, allDataRow) ==
    LET S == [S0 EXCEPT !.eventYear = YearOfRow(allDataRow, S0.eventYear)] IN
    IF Len(allDataRow) > m_eventIndex
    THEN LET kind == At(allDataRow, m_eventIndex) IN
         CASE kind = S_OUT -> ExtractLicenseEvent(S, allDataRow, m_OUTindices, FALSE)
           [] kind = S_IN -> ExtractLicenseEvent(S, allDataRow, m_INindices, FALSE)
           [] kind = S_DENY -> ExtractLicenseEvent(S, allDataRow, m_DENYindices, TRUE)
           [] kind = S_START -> ExtractStart(S, allDataRow)
           [] kind = S_SHUTDOWN -> ExtractShutdown(S, allDataRow)
           [] kind = S_PRODUCT -> ExtractProduct(S, allDataRow)
           [] OTHER -> S
    ELSE S

ExtractRow ==
    /\ pc = "extractEvents"
    /\ row < Len(m_allData)
    /\ LET R == ExtractRowResult(ExtractState, At(m_allData, row)) IN
         /\ m_eventData' = R.eventData
         /\ m_denialEvents' = R.denialEvents
         /\ m_shutdownEvents' = R.shutdownEvents
         /\ m_startEvents' = R.startEvents
         /\ m_uniqueProducts' = R.uniqueProducts
         /\ m_uniqueUsers' = R.uniqueUsers
         /\ m_uniqueHosts' = R.uniqueHosts
         /\ m_eventYear' = R.eventYear
         /\ m_serverName' = R.serverName
         /\ m_endTimeRow' = R.endTimeRow
         /\ IF R.what = "none"
            THEN /\ row' = row + 1
                 /\ UNCHANGED <<pc, exception>>
            ELSE /\ pc' = "failed"
                 /\ exception' = [what |-> R.what, row |-> row + 1]
                 /\ row' = row
    /\ UNCHANGED <<m_rawData, m_fileFormat, m_allData,
                   licenseCountsByProduct, uniqueLicenseCountsByProduct,
                   licenseCountByProductAndUser, maxLicenseCountsByProduct,
                   maxreservedLicenseCountsByProduct, reservedLicenseUsageCount,
                   m_usage, m_usageDurationu, m_usageDurationh,
                   m_totalDurationu, m_totalDurationh, m_deniedRequest>>

\* ------------------------------------------------------------------ getConcurrentUsage

\* getIndex(name, list): the first position of the name, counted from 0; -1
\* stands for the InvalidIndexException thrown when the list lacks the name.
getIndex(name, list) ==
    IF \E i \in 1..Len(list) : list[i] = name
    THEN (CHOOSE i \in 1..Len(list) :
            list[i] = name /\ \A j \in 1..(i - 1) : list[j] # name) - 1
    ELSE -1

\* The header row of the concurrent-usage table.
RECURSIVE UsageHeader(_)
UsageHeader(products) ==
    IF products = << >> THEN <<<<"D","a","t","e","/","T","i","m","e">>>>
    ELSE LET front == SubSeq(products, 1, Len(products) - 1)
             name == products[Len(products)]
         IN  UsageHeader(front) \o
               <<name \o <<" ","F","l","o","a","t","i","n","g"," ","L","i","c","e","n","s","e","s"," ","i","n"," ","u","s","e">>,
                 name \o <<" ","T","o","t","a","l"," ","L","i","c","e","n","s","e","s"," ","i","n"," ","u","s","e">>,
                 name \o <<" ","F","l","o","a","t","i","n","g"," ","L","i","c","e","n","s","e","s"," ","L","i","m","i","t">>,
                 name \o <<" ","R","e","s","e","r","v","e","d"," ","L","i","c","e","n","s","e","s"," ","i","n"," ","u","s","e">>,
                 name \o <<" ","R","e","s","e","r","v","e","d"," ","L","i","c","e","n","s","e","s"," ","L","i","m","i","t">>>>

\* Mutant of GetConcurrentUsageBegin: the stage also runs after extractEvents
\* stopped on a row with missing data.
GetConcurrentUsageBegin_AfterError ==
    /\ \/ pc = "extractEvents" /\ row = Len(m_allData)
       \/ pc = "failed" /\ exception.what = "EventDataException"
    /\ pc' = "getConcurrentUsage"
    /\ row' = 0
    /\ reservedLicenseUsageCount' = [p \in 1..Len(m_uniqueProducts) |-> <<"0">>]
    /\ licenseCountsByProduct' = [p \in 1..Len(m_uniqueProducts) |-> <<"0">>]
    /\ uniqueLicenseCountsByProduct' = [p \in 1..Len(m_uniqueProducts) |-> 0]
    /\ licenseCountByProductAndUser' =
         [u \in 1..Len(m_uniqueUsers) |-> [p \in 1..Len(m_uniqueProducts) |-> 0]]
    /\ maxLicenseCountsByProduct' = [p \in 1..Len(m_uniqueProducts) |-> <<"0">>]
    /\ maxreservedLicenseCountsByProduct' = [p \in 1..Len(m_uniqueProducts) |-> <<"0">>]
    /\ m_usage' = Append(m_usage, UsageHeader(m_uniqueProducts))
    /\ UNCHANGED <<exception, m_rawData, m_fileFormat, m_allData, m_eventData, m_denialEvents,
                   m_shutdownEvents, m_startEvents, m_uniqueProducts, m_uniqueUsers,
                   m_uniqueHosts, m_eventYear, m_serverName, m_endTimeRow,
                   m_usageDurationu, m_usageDurationh,
                   m_totalDurationu, m_totalDurationh, m_deniedRequest>>

\* The declarations of getConcurrentUsage and the header row it appends.
GetConcurrentUsageBegin ==
    /\ pc = "extractEvents"
    /\ row = Len(m_allData)
    /\ pc' = "getConcurrentUsage"
    /\ row' = 0
    /\ reservedLicenseUsageCount' = [p \in 1..Len(m_uniqueProducts) |-> <<"0">>]
    /\ licenseCountsByProduct' = [p \in 1..Len(m_uniqueProducts) |-> <<"0">>]
    /\ uniqueLicenseCountsByProduct' = [p \in 1..Len(m_uniqueProducts) |-> 0]
    /\ licenseCountByProductAndUser' =
         [u \in 1..Len(m_uniqueUsers) |-> [p \in 1..Len(m_uniqueProducts) |-> 0]]
    /\ maxLicenseCountsByProduct' = [p \in 1..Len(m_uniqueProducts) |-> <<"0">>]
    /\ maxreservedLicenseCountsByProduct' = [p \in 1..Len(m_uniqueProducts) |-> <<"0">>]
    /\ m_usage' = Append(m_usage, UsageHeader(m_uniqueProducts))
    /\ UNCHANGED <<exception, m_rawData, m_fileFormat, m_allData, m_eventData, m_denialEvents,
                   m_shutdownEvents, m_startEvents, m_uniqueProducts, m_uniqueUsers,
                   m_uniqueHosts, m_eventYear, m_serverName, m_endTimeRow,
                   m_usageDurationu, m_usageDurationh,
                   m_totalDurationu, m_totalDurationh, m_deniedRequest>>

\* gatherConcurrentUsageData: the snapshot row of the event at `r`.
RECURSIVE SnapshotBlocks(_, _, _, _, _)
SnapshotBlocks(usage, unique, max, reserved, maxreserved) ==
    IF usage = << >> THEN << >>
    ELSE LET n == Len(usage) IN
         SnapshotBlocks(SubSeq(usage, 1, n - 1), SubSeq(unique, 1, n - 1),
                        SubSeq(max, 1, n - 1), SubSeq(reserved, 1, n - 1),
                        SubSeq(maxreserved, 1, n - 1))
           \o <<usage[n], toString(unique[n]), max[n], reserved[n], maxreserved[n]>>

gatherConcurrentUsageData(r, usage, unique, max, reserved, maxreserved) ==
    <<At(At(m_eventData, r), IndexDate) \o <<" ">> \o At(At(m_eventData, r), IndexTime)>>
      \o SnapshotBlocks(usage, unique, max, reserved, maxreserved)

\* The local vectors of getConcurrentUsage.
UsageState ==
    [licenseCounts |-> licenseCountsByProduct, unique |-> uniqueLicenseCountsByProduct,
     live |-> licenseCountByProductAndUser, max |-> maxLicenseCountsByProduct,
     maxreserved |-> maxreservedLicenseCountsByProduct,
     reserved |-> reservedLicenseUsageCount, usage |-> m_usage, what |-> "none"]

Snapshot(C, r, unique) ==
    gatherConcurrentUsageData(r, C.licenseCounts, unique, C.max, C.reserved, C.maxreserved)

\* Mutant of UsageOUT: every OUT event counts as one more unique user.
UsageOUT_AlwaysUnique(C, r) ==
    LET ev == At(m_eventData, r)
        p == getIndex(At(ev, IndexProduct), m_uniqueProducts)
        u == getIndex(At(ev, IndexUser), m_uniqueUsers)
    IN  IF p < 0 \/ u < 0 THEN [C EXCEPT !.what = "InvalidIndexException"]
        ELSE LET live1 == C.live[u + 1][p + 1] + 1
                 C1 == [C EXCEPT !.licenseCounts[p + 1] = At(ev, IndexCount),
                                 !.live[u + 1][p + 1] = live1,
                                 !.unique[p + 1] = @ + 1,
                                 !.reserved[p + 1] = At(ev, 9)]
             IN  [C1 EXCEPT !.usage = Append(@, Snapshot(C1, r, C1.unique))]

\* The OUT branch.
UsageOUT(C, r) ==
    LET ev == At(m_eventData, r)
        p == getIndex(At(ev, IndexProduct), m_uniqueProducts)
        u == getIndex(At(ev, IndexUser), m_uniqueUsers)
    IN  IF p < 0 \/ u < 0 THEN [C EXCEPT !.what = "InvalidIndexException"]
        ELSE LET live1 == C.live[u + 1][p + 1] + 1
                 C1 == [C EXCEPT !.licenseCounts[p + 1] = At(ev, IndexCount),
                                 !.live[u + 1][p + 1] = live1,
                                 !.unique[p + 1] = (IF live1 = 1 THEN @ + 1 ELSE @),
                                 !.reserved[p + 1] = At(ev, 9)]
             IN  [C1 EXCEPT !.usage = Append(@, Snapshot(C1, r, C1.unique))]

\* Mutant of LiveAfterIN: the decrement is not guarded.
LiveAfterIN_NoGuard(live) == live - 1

\* The decrement of the live count of an IN event: never below zero.
LiveAfterIN(live) == IF live > 0 THEN live - 1 ELSE live

\* Mutant of UniqueAfterIN: an IN event never lowers the unique count.
UniqueAfterIN_Keep(live, unique) == unique

\* The unique count of the product after an IN event left `live` checkouts.
UniqueAfterIN(live, unique) == IF live = 0 /\ unique > 0 THEN unique - 1 ELSE unique

\* Mutant of UniqueAfterPost: the posted 1 is carried on.
UniqueAfterPost_Keep(posted) == posted

\* The unique count carried on after the snapshot that posted 1 for a log
\* that started with licenses checked out: set back down to zero.
UniqueAfterPost(posted) == 0

\* The IN branch.
UsageIN(C, r) ==
    LET ev == At(m_eventData, r)
        p == getIndex(At(ev, IndexProduct), m_uniqueProducts)
        u == getIndex(At(ev, IndexUser), m_uniqueUsers)
    IN  IF p < 0 \/ u < 0 THEN [C EXCEPT !.what = "InvalidIndexException"]
        ELSE LET live1 == LiveAfterIN(C.live[u + 1][p + 1])
                 unique1 == UniqueAfterIN(live1, C.unique[p + 1])
                 C1 == [C EXCEPT !.licenseCounts[p + 1] = At(ev, IndexCount),
                                 !.live[u + 1][p + 1] = live1,
                                 !.unique[p + 1] = unique1]
             IN  IF atoi(C1.licenseCounts[p + 1]) > 0 /\ unique1 = 0
                 THEN \* the log started with licenses checked out
                      LET posted == [C1.unique EXCEPT ![p + 1] = 1] IN
                      [C1 EXCEPT !.usage = Append(@, Snapshot(C1, r, posted)),
                                 !.unique[p + 1] = UniqueAfterPost(posted[p + 1])]
                 ELSE [C1 EXCEPT !.usage = Append(@, Snapshot(C1, r, C1.unique))]

\* Mutant of UsageSHUTDOWN: the totals in use are not set back to "0".
UsageSHUTDOWN_KeepTotals(C, r) ==
    LET C1 == [C EXCEPT !.unique = [p \in 1..Len(C.unique) |-> 0],
                        !.live = [u \in 1..Len(C.live) |->
                                    [p \in 1..Len(C.live[u]) |-> 0]]]
    IN  [C1 EXCEPT !.usage = Append(@, Snapshot(C1, r, C1.unique))]

\* Mutant of UsageSHUTDOWN: the reserved values in use are set back to "0" too.
UsageSHUTDOWN_ResetReserved(C, r) ==
    LET C1 == [C EXCEPT !.unique = [p \in 1..Len(C.unique) |-> 0],
                        !.live = [u \in 1..Len(C.live) |->
                                    [p \in 1..Len(C.live[u]) |-> 0]],
                        !.licenseCounts = [p \in 1..Len(m_uniqueProducts) |-> toString(0)],
                        !.reserved = [p \in 1..Len(m_uniqueProducts) |-> toString(0)]]
    IN  [C1 EXCEPT !.usage = Append(@, Snapshot(C1, r, C1.unique))]

\* The SHUTDOWN branch.
UsageSHUTDOWN(C, r) ==
    LET C1 == [C EXCEPT !.unique = [p \in 1..Len(C.unique) |-> 0],
                        !.live = [u \in 1..Len(C.live) |->
                                    [p \in 1..Len(C.live[u]) |-> 0]],
                        !.licenseCounts = [p \in 1..Len(m_uniqueProducts) |-> toString(0)]]
    IN  [C1 EXCEPT !.usage = Append(@, Snapshot(C1, r, C1.unique))]

\* Mutant of UsagePRODUCT: the PRODUCT event gives a snapshot row as well.
UsagePRODUCT_Snapshot(C, r) ==
    LET ev == At(m_eventData, r)
        p == getIndex(At(ev, 1), m_uniqueProducts)
    IN  IF p < 0 THEN [C EXCEPT !.what = "InvalidIndexException"]
        ELSE LET C1 == [C EXCEPT !.max[p + 1] = At(ev, 3), !.maxreserved[p + 1] = At(ev, 4)]
             IN  [C1 EXCEPT !.usage = Append(@, Snapshot(C1, r, C1.unique))]

\* Mutant of UsagePRODUCT: the two limits are read from each other's field.
UsagePRODUCT_Swapped(C, r) ==
    LET ev == At(m_eventData, r)
        p == getIndex(At(ev, 1), m_uniqueProducts)
    IN  IF p < 0 THEN [C EXCEPT !.what = "InvalidIndexException"]
        ELSE [C EXCEPT !.max[p + 1] = At(ev, 4), !.maxreserved[p + 1] = At(ev, 3)]

\* The PRODUCT branch.
UsagePRODUCT(C, r) ==
    LET ev == At(m_eventData, r)
        p == getIndex(At(ev, 1), m_uniqueProducts)
    IN  IF p < 0 THEN [C EXCEPT !.what = "InvalidIndexException"]
        ELSE [C EXCEPT !.max[p + 1] = At(ev, 3), !.maxreserved[p + 1] = At(ev, 4)]

\* Mutant of UsageRowResult: a START event resets the counts as a SHUTDOWN does.
UsageRowResult_StartResets(C, r) ==
    LET kind == At(At(m_eventData, r), IndexEvent) IN
    CASE kind = S_OUT -> UsageOUT(C, r)
      [] kind = S_IN -> UsageIN(C, r)
      [] kind = S_SHUTDOWN -> UsageSHUTDOWN(C, r)
      [] kind = S_START -> UsageSHUTDOWN(C, r)
      [] kind = S_PRODUCT -> UsagePRODUCT(C, r)
      [] OTHER -> C

\* One iteration of the replay loop over m_eventData.
UsageRowResult(C, r) ==
    LET kind == At(At(m_eventData, r), IndexEvent) IN
    CASE kind = S_OUT -> UsageOUT(C, r)
      [] kind = S_IN -> UsageIN(C, r)
      [] kind = S_SHUTDOWN -> UsageSHUTDOWN(C, r)
      [] kind = S_PRODUCT -> UsagePRODUCT(C, r)
      [] OTHER -> C

UsageRow ==
    /\ pc = "getConcurrentUsage"
    /\ row < Len(m_eventData)
    /\ LET R == UsageRowResult(UsageState, row) IN
         /\ licenseCountsByProduct' = R.licenseCounts
         /\ uniqueLicenseCountsByProduct' = R.unique
         /\ licenseCountByProductAndUser' = R.live
         /\ maxLicenseCountsByProduct' = R.max
         /\ maxreservedLicenseCountsByProduct' = R.maxreserved
         /\ reservedLicenseUsageCount' = R.reserved
         /\ m_usage' = R.usage
         /\ IF R.what = "none"
            THEN /\ row' = row + 1
                 /\ UNCHANGED <<pc, exception>>
            ELSE /\ pc' = "failed"
                 /\ exception' = [what |-> R.what, row |-> 0]
                 /\ row' = row
    /\ UNCHANGED <<m_rawData, m_fileFormat, m_allData, m_eventData, m_denialEvents,
                   m_shutdownEvents, m_startEvents, m_uniqueProducts, m_uniqueUsers,
                   m_uniqueHosts, m_eventYear, m_serverName, m_endTimeRow,
                   m_usageDurationu, m_usageDurationh,
                   m_totalDurationu, m_totalDurationh, m_deniedRequest>>

\* ------------------------------------------------------------------ durations

\* A ptime is a day number and the seconds of the day, a time_duration is a
\* number of seconds; either can be not_a_date_time.
NotAPTime == [valid |-> FALSE, day |-> 0, secs |-> 0]
NotADateTime == [valid |-> FALSE, secs |-> 0]

AllDigits(s) == s # << >> /\ \A i \in 1..Len(s) : IsDigit(s[i])

IsLeapYear(y) == (y % 4 = 0 /\ y % 100 # 0) \/ y % 400 = 0

DaysInMonth(y, m) ==
    IF m = 2 THEN (IF IsLeapYear(y) THEN 29 ELSE 28)
    ELSE IF m \in {4, 6, 9, 11} THEN 30 ELSE 31

\* The day number of a date of the Gregorian calendar.
DayNumber(y, m, d) ==
    LET a == (14 - m) \div 12
        yy == y + 4800 - a
        mm == m + 12 * a - 3
    IN  d + ((153 * mm + 2) \div 5) + 365 * yy + (yy \div 4) - (yy \div 100)
          + (yy \div 400) - 32045

\* stringToBoostTime(date, time): the point in time of "MM/DD/YYYY" and
\* "HH:MM" or "HH:MM:SS"; a text that is no date gives not_a_date_time.
stringToBoostTime(date, time) ==
    LET dv == tokenizeString("/", date)
        tv == tokenizeString(":", time)
    IN  IF /\ Len(dv) = 3 /\ Len(tv) \in {2, 3}
           /\ \A i \in 1..3 : AllDigits(dv[i])
           /\ \A i \in 1..Len(tv) : AllDigits(tv[i])
           /\ atoi(dv[3]) \in 1400..9999
           /\ atoi(dv[1]) \in 1..12
           /\ atoi(dv[2]) \in 1..DaysInMonth(atoi(dv[3]), atoi(dv[1]))
           /\ atoi(tv[1]) \in 0..23 /\ atoi(tv[2]) \in 0..59
           /\ (Len(tv) = 3 => atoi(tv[3]) \in 0..59)
        THEN [valid |-> TRUE,
              day |-> DayNumber(atoi(dv[3]), atoi(dv[1]), atoi(dv[2])),
              secs |-> atoi(tv[1]) * 3600 + atoi(tv[2]) * 60
                         + (IF Len(tv) = 3 THEN atoi(tv[3]) ELSE 0)]
        ELSE NotAPTime

\* endTime - startTime, in seconds
TimeDiff(endTime, startTime) ==
    IF endTime.valid /\ startTime.valid
    THEN [valid |-> TRUE,
          secs |-> (endTime.day - startTime.day) * 86400 + endTime.secs - startTime.secs]
    ELSE NotADateTime

\* total += usageDuration
TimeAdd(total, d) ==
    IF total.valid /\ d.valid THEN [valid |-> TRUE, secs |-> total.secs + d.secs]
    ELSE NotADateTime

TwoDigits(n) == IF n < 10 THEN <<"0">> \o toString(n) ELSE toString(n)

\* toString(time_duration): "HH:MM:SS", with a leading "-" when negative
DurationToString(d) ==
    IF ~d.valid THEN S_NotADateTime
    ELSE LET a == IF d.secs < 0 THEN 0 - d.secs ELSE d.secs IN
         (IF d.secs < 0 THEN <<"-">> ELSE << >>)
           \o TwoDigits(a \div 3600) \o <<":">> \o TwoDigits((a % 3600) \div 60)
           \o <<":">> \o TwoDigits(a % 60)

\* Mutant of Closes: a SHUTDOWN does not close.
Closes_NoShutdown(eventData, newRow, handle) ==
    /\ At(At(eventData, newRow), IndexEvent) = S_IN
    /\ At(At(eventData, newRow), IndexHandle) = handle

\* Mutant of CheckInRow: the handle of the IN is not compared.
RECURSIVE ScanAnyIN(_, _)
ScanAnyIN(eventData, newRow) ==
    IF newRow >= Len(eventData) THEN -1
    ELSE IF At(At(eventData, newRow), IndexEvent) \in {S_IN, S_SHUTDOWN} THEN newRow
    ELSE ScanAnyIN(eventData, newRow + 1)

CheckInRow_AnyIN(eventData, outRow) == ScanAnyIN(eventData, outRow + 1)

\* Mutant of FallbackRow: the last event of the sequence, timestamped or not.
FallbackRow_LastEvent(endTimeRow) == Len(m_eventData) - 1

\* Mutant of Closes: an IN closes whatever its handle.
Closes_AnyHandle(eventData, newRow, handle) ==
    \/ At(At(eventData, newRow), IndexEvent) = S_IN
    \/ At(At(eventData, newRow), IndexEvent) = S_SHUTDOWN

\* Whether the event at newRow closes a checkout with this handle: an IN with
\* the same handle, or a SHUTDOWN.
Closes(eventData, newRow, handle) ==
    \/ /\ At(At(eventData, newRow), IndexEvent) = S_IN
       /\ At(At(eventData, newRow), IndexHandle) = handle
    \/ At(At(eventData, newRow), IndexEvent) = S_SHUTDOWN

\* The inner loop from newRow on: the row that closes, -1 when the events end.
RECURSIVE ScanCheckIn(_, _, _)
ScanCheckIn(eventData, newRow, handle) ==
    IF newRow >= Len(eventData) THEN -1
    ELSE IF Closes(eventData, newRow, handle) THEN newRow
    ELSE ScanCheckIn(eventData, newRow + 1, handle)

\* checkInRow of the OUT event at outRow
CheckInRow(eventData, outRow) ==
    ScanCheckIn(eventData, outRow + 1, At(At(eventData, outRow), IndexHandle))

\* The row whose time ends the checkout that no event closes.
FallbackRow(endTimeRow) == endTimeRow

\* usageDuration of the OUT event at outRow
UsageDuration(eventData, outRow, endTimeRow) ==
    LET checkInRow == CheckInRow(eventData, outRow)
        endRow == IF checkInRow = -1 THEN FallbackRow(endTimeRow) ELSE checkInRow
    IN  TimeDiff(stringToBoostTime(At(At(eventData, endRow), IndexDate),
                                   At(At(eventData, endRow), IndexTime)),
                 stringToBoostTime(At(At(eventData, outRow), IndexDate),
                                   At(At(eventData, outRow), IndexTime)))

\* Mutant of DurationRecord: the user and host columns are filled from the
\* host and the user of the event.
DurationRecord_HostForUser(eventData, outRow, endTimeRow) ==
    LET ev == At(eventData, outRow)
        checkInRow == CheckInRow(eventData, outRow)
    IN  <<At(ev, IndexDate) \o <<" ">> \o At(ev, IndexTime),
          IF checkInRow # -1
          THEN At(At(eventData, checkInRow), IndexDate) \o <<" ">>
                 \o At(At(eventData, checkInRow), IndexTime)
          ELSE S_StillCheckedOut,
          At(ev, IndexProduct), At(ev, IndexVersion), At(ev, IndexHost), At(ev, IndexUser),
          DurationToString(UsageDuration(eventData, outRow, endTimeRow))>>

\* The Duration Record of the OUT event at outRow
DurationRecord(eventData, outRow, endTimeRow) ==
    LET ev == At(eventData, outRow)
        checkInRow == CheckInRow(eventData, outRow)
    IN  <<At(ev, IndexDate) \o <<" ">> \o At(ev, IndexTime),
          IF checkInRow # -1
          THEN At(At(eventData, checkInRow), IndexDate) \o <<" ">>
                 \o At(At(eventData, checkInRow), IndexTime)
          ELSE S_StillCheckedOut,
          At(ev, IndexProduct), At(ev, IndexVersion), At(ev, IndexUser), At(ev, IndexHost),
          DurationToString(UsageDuration(eventData, outRow, endTimeRow))>>

DurationHeader ==
    <<<<"C","h","e","c","k","o","u","t"," ","D","a","t","e","/","T","i","m","e">>, <<"C","h","e","c","k","i","n"," ","D","a","t","e","/","T","i","m","e">>, <<"P","r","o","d","u","c","t">>, <<"V","e","r","s","i","o","n">>, <<"U","s","e","r">>, <<"H","o","s","t">>,
      <<"D","u","r","a","t","i","o","n"," ","(","H","H",":","M","M",":","S","S",")">>>>

\* The loop over m_eventData of one pass, from `r` on. identityIndex is
\* IndexUser or IndexHost and identities the registry of that pass.
RECURSIVE DurationPass(_, _, _, _)
DurationPass(D, r, identityIndex, identities) ==
    IF r >= Len(m_eventData) \/ D.what # "none" THEN D
    ELSE IF At(At(m_eventData, r), IndexEvent) # S_OUT
         THEN DurationPass(D, r + 1, identityIndex, identities)
         ELSE LET ev == At(m_eventData, r)
                  i == getIndex(At(ev, identityIndex), identities)
                  p == getIndex(At(ev, IndexProduct), m_uniqueProducts)
              IN  IF i < 0 \/ p < 0 THEN [D EXCEPT !.what = "InvalidIndexException"]
                  ELSE DurationPass(
                         [D EXCEPT !.total[i + 1][p + 1] =
                                      TimeAdd(@, UsageDuration(m_eventData, r, m_endTimeRow)),
                                   !.table = Append(@,
                                      DurationRecord(m_eventData, r, m_endTimeRow))],
                         r + 1, identityIndex, identities)

\* The state of a pass before its loop: the header row and a matrix of zeros.
DurationStart(table, identities) ==
    [table |-> Append(table, DurationHeader),
     total |-> [i \in 1..Len(identities) |->
                  [p \in 1..Len(m_uniqueProducts) |-> [valid |-> TRUE, secs |-> 0]]],
     what |-> "none"]

\* Mutant of GetUsageDurationUser: the pass moves m_endTimeRow to the last
\* event of the sequence.
GetUsageDurationUser_MovesEndRow ==
    /\ pc = "getConcurrentUsage"
    /\ row = Len(m_eventData)
    /\ LET D == DurationPass(DurationStart(m_usageDurationu, m_uniqueUsers), 0,
                             IndexUser, m_uniqueUsers) IN
         /\ m_usageDurationu' = D.table
         /\ m_totalDurationu' = D.total
         /\ m_endTimeRow' = Len(m_eventData) - 1
         /\ IF D.what = "none"
            THEN /\ pc' = "getUsageDurationHost"
                 /\ exception' = exception
            ELSE /\ pc' = "failed"
                 /\ exception' = [what |-> D.what, row |-> 0]
    /\ UNCHANGED <<m_rawData, m_fileFormat, m_allData, m_eventData, m_denialEvents,
                   m_shutdownEvents, m_startEvents, m_uniqueProducts, m_uniqueUsers,
                   m_uniqueHosts, m_eventYear, m_serverName, row, licenseCountsByProduct, uniqueLicenseCountsByProduct,
                   licenseCountByProductAndUser, maxLicenseCountsByProduct,
                   maxreservedLicenseCountsByProduct, reservedLicenseUsageCount, m_usage,
                   m_usageDurationh, m_totalDurationh, m_deniedRequest>>

GetUsageDurationUser ==
    /\ pc = "getConcurrentUsage"
    /\ row = Len(m_eventData)
    /\ LET D == DurationPass(DurationStart(m_usageDurationu, m_uniqueUsers), 0,
                             IndexUser, m_uniqueUsers) IN
         /\ m_usageDurationu' = D.table
         /\ m_totalDurationu' = D.total
         /\ IF D.what = "none"
            THEN /\ pc' = "getUsageDurationHost"
                 /\ exception' = exception
            ELSE /\ pc' = "failed"
                 /\ exception' = [what |-> D.what, row |-> 0]
    /\ UNCHANGED <<m_rawData, m_fileFormat, m_allData, m_eventData, m_denialEvents,
                   m_shutdownEvents, m_startEvents, m_uniqueProducts, m_uniqueUsers,
                   m_uniqueHosts, m_eventYear, m_serverName, m_endTimeRow, row, licenseCountsByProduct, uniqueLicenseCountsByProduct,
                   licenseCountByProductAndUser, maxLicenseCountsByProduct,
                   maxreservedLicenseCountsByProduct, reservedLicenseUsageCount, m_usage,
                   m_usageDurationh, m_totalDurationh, m_deniedRequest>>

\* Mutant of GetUsageDurationHost: the host pass starts from the table of the
\* user pass.
GetUsageDurationHost_OntoUserTable ==
    /\ pc = "getUsageDurationHost"
    /\ LET D == DurationPass(DurationStart(m_usageDurationu, m_uniqueHosts), 0,
                             IndexHost, m_uniqueHosts) IN
         /\ m_usageDurationh' = D.table
         /\ m_totalDurationh' = D.total
         /\ IF D.what = "none"
            THEN /\ pc' = "getDeniedRequests"
                 /\ exception' = exception
            ELSE /\ pc' = "failed"
                 /\ exception' = [what |-> D.what, row |-> 0]
    /\ UNCHANGED <<m_rawData, m_fileFormat, m_allData, m_eventData, m_denialEvents,
                   m_shutdownEvents, m_startEvents, m_uniqueProducts, m_uniqueUsers,
                   m_uniqueHosts, m_eventYear, m_serverName, m_endTimeRow, row, licenseCountsByProduct, uniqueLicenseCountsByProduct,
                   licenseCountByProductAndUser, maxLicenseCountsByProduct,
                   maxreservedLicenseCountsByProduct, reservedLicenseUsageCount, m_usage,
                   m_usageDurationu, m_totalDurationu, m_deniedRequest>>

GetUsageDurationHost ==
    /\ pc = "getUsageDurationHost"
    /\ LET D == DurationPass(DurationStart(m_usageDurationh, m_uniqueHosts), 0,
                             IndexHost, m_uniqueHosts) IN
         /\ m_usageDurationh' = D.table
         /\ m_totalDurationh' = D.total
         /\ IF D.what = "none"
            THEN /\ pc' = "getDeniedRequests"
                 /\ exception' = exception
            ELSE /\ pc' = "failed"
                 /\ exception' = [what |-> D.what, row |-> 0]
    /\ UNCHANGED <<m_rawData, m_fileFormat, m_allData, m_eventData, m_denialEvents,
                   m_shutdownEvents, m_startEvents, m_uniqueProducts, m_uniqueUsers,
                   m_uniqueHosts, m_eventYear, m_serverName, m_endTimeRow, row, licenseCountsByProduct, uniqueLicenseCountsByProduct,
                   licenseCountByProductAndUser, maxLicenseCountsByProduct,
                   maxreservedLicenseCountsByProduct, reservedLicenseUsageCount, m_usage,
                   m_usageDurationu, m_totalDurationu, m_deniedRequest>>

\* ------------------------------------------------------------------ getDeniedRequests

DeniedHeader == <<<<"R","e","q","u","e","s","t">>, <<"P","r","o","d","u","c","t">>, <<"V","e","r","s","i","o","n">>, <<"U","s","e","r">>, <<"H","o","s","t">>, <<"R","e","a","s","o","n">>>>

DeniedRecord(ev) ==
    <<At(ev, IndexDate) \o <<" ">> \o At(ev, IndexTime), At(ev, IndexProduct),
      At(ev, IndexVersion), At(ev, IndexUser), At(ev, IndexHost), At(ev, IndexCount)>>

\* Mutant of DeniedRows: the record of an IN event is collected as well.
RECURSIVE DeniedRows_AlsoIN(_)
DeniedRows_AlsoIN(events) ==
    IF events = << >> THEN << >>
    ELSE LET n == Len(events)
             front == DeniedRows_AlsoIN(SubSeq(events, 1, n - 1))
         IN  IF At(events[n], IndexEvent) \in {S_DENY, S_IN}
             THEN Append(front, DeniedRecord(events[n]))
             ELSE front

RECURSIVE DeniedRows(_)
DeniedRows(events) ==
    IF events = << >> THEN << >>
    ELSE LET n == Len(events)
             front == DeniedRows(SubSeq(events, 1, n - 1))
         IN  IF At(events[n], IndexEvent) = S_DENY
             THEN Append(front, DeniedRecord(events[n]))
             ELSE front

GetDeniedRequests ==
    /\ pc = "getDeniedRequests"
    /\ m_deniedRequest' = Append(m_deniedRequest, DeniedHeader) \o DeniedRows(m_eventData)
    /\ pc' = "constructed"
    /\ UNCHANGED <<exception, m_rawData, m_fileFormat, m_allData, m_eventData, m_denialEvents,
                   m_shutdownEvents, m_startEvents, m_uniqueProducts, m_uniqueUsers,
                   m_uniqueHosts, m_eventYear, m_serverName, m_endTimeRow, row, licenseCountsByProduct, uniqueLicenseCountsByProduct,
                   licenseCountByProductAndUser, maxLicenseCountsByProduct,
                   maxreservedLicenseCountsByProduct, reservedLicenseUsageCount, m_usage,
                   m_usageDurationu, m_usageDurationh, m_totalDurationu, m_totalDurationh>>

\* ------------------------------------------------------------------ publishResults

\* publishResults writes the report tables of a LogData object. A constructor
\* that threw leaves no object to call it on, so it runs on a constructed
\* object only; it reads the tables and changes none of them.
PublishResults ==
    /\ pc = "constructed"
    /\ pc' = "published"
    /\ UNCHANGED <<exception, m_rawData, m_fileFormat, m_allData, m_eventData, m_denialEvents,
                   m_shutdownEvents, m_startEvents, m_uniqueProducts, m_uniqueUsers,
                   m_uniqueHosts, m_eventYear, m_serverName, m_endTimeRow, row,
                   licenseCountsByProduct, uniqueLicenseCountsByProduct,
                   licenseCountByProductAndUser, maxLicenseCountsByProduct,
                   maxreservedLicenseCountsByProduct, reservedLicenseUsageCount, m_usage,
                   m_usageDurationu, m_usageDurationh, m_totalDurationu, m_totalDurationh,
                   m_deniedRequest>>

\* ------------------------------------------------------------------ specification

Next ==
    \/ FindFileFormat
    \/ ParseDataInto2DVector
    \/ ExtractRow
    \/ GetConcurrentUsageBegin
    \/ UsageRow
    \/ GetUsageDurationUser
    \/ GetUsageDurationHost
    \/ GetDeniedRequests
    \/ PublishResults

Spec == Init /\ [][Next]_vars

\* ------------------------------------------------------------------ properties

NumEvents == Len(m_eventData)
EvKind(j) == At(At(m_eventData, j), IndexEvent)
EvHandle(j) == At(At(m_eventData, j), IndexHandle)
EvStamp(j) == At(At(m_eventData, j), IndexDate) \o <<" ">> \o At(At(m_eventData, j), IndexTime)
EvTime(j) == stringToBoostTime(At(At(m_eventData, j), IndexDate),
                               At(At(m_eventData, j), IndexTime))
OutRows == { i \in 0..(NumEvents - 1) : EvKind(i) = S_OUT }

UserPassDone == pc \in {"getUsageDurationHost", "getDeniedRequests", "constructed", "published"}
HostPassDone == pc \in {"getDeniedRequests", "constructed", "published"}

\* The Duration Record of the OUT event at i: the header is row 1, the record
\* of the k-th OUT event is row k + 1.
RecordOf(table, i) == table[1 + Cardinality({ j \in OutRows : j <= i })]

\* Event j can close the OUT event at i.
CanClose(i, j) ==
    /\ j > i
    /\ \/ EvKind(j) = S_IN /\ EvHandle(j) = EvHandle(i)
       \/ EvKind(j) = S_SHUTDOWN

\* The smallest j > i that can close the OUT at i, -1 when there is none.
FirstClose(i) ==
    IF \E j \in 0..(NumEvents - 1) : CanClose(i, j)
    THEN CHOOSE j \in 0..(NumEvents - 1) :
           CanClose(i, j) /\ \A k \in 0..(j - 1) : ~CanClose(i, k)
    ELSE -1

\* The first IN event after i with the handle of the OUT at i, -1 when none.
FirstSameHandleIN(i) ==
    LET ins == { j \in (i + 1)..(NumEvents - 1) :
                   EvKind(j) = S_IN /\ EvHandle(j) = EvHandle(i) }
    IN  IF ins = {} THEN -1 ELSE CHOOSE j \in ins : \A k \in ins : j <= k

ShutdownBetween(i, j) == \E k \in (i + 1)..(j - 1) : EvKind(k) = S_SHUTDOWN

\* The checkin cell a table must show for the OUT at i when event c closes it.
CheckinCell(c) == IF c = -1 THEN S_StillCheckedOut ELSE EvStamp(c)

CloseSelectedIn(table) ==
    /\ Len(table) = 1 + Cardinality(OutRows)
    /\ \A i \in OutRows :
         /\ CheckInRow(m_eventData, i) = FirstClose(i)
         /\ RecordOf(table, i)[2] = CheckinCell(FirstClose(i))

\* C1: in both duration passes the close of every OUT event at index i is the
\* event at the smallest index j > i that is an IN with the OUT's handle or a
\* SHUTDOWN; no event between i and j and no event after j is used.
C1_CloseSelection ==
    /\ UserPassDone => CloseSelectedIn(m_usageDurationu)
    /\ HostPassDone => CloseSelectedIn(m_usageDurationh)

\* An OUT whose close is not the next event: another event lies between.
C1_Witness ==
    /\ HostPassDone
    /\ \E i \in OutRows : FirstClose(i) > i + 1 /\ EvKind(FirstClose(i)) = S_IN

MatchedIn(table, i, j) ==
    /\ RecordOf(table, i)[2] = EvStamp(j)
    /\ RecordOf(table, i)[7] = DurationToString(TimeDiff(EvTime(j), EvTime(i)))

\* One OUT and one IN with its handle, nothing else: one record, the OUT's product.
OneOutOneIn(table) ==
    (/\ NumEvents = 2 /\ EvKind(0) = S_OUT /\ EvKind(1) = S_IN /\ EvHandle(1) = EvHandle(0))
      => /\ Len(table) = 2
         /\ table[2][3] = At(At(m_eventData, 0), IndexProduct)

\* C2 as stated: every OUT event followed later by an IN event with the same
\* handle has a Duration Record whose checkin is that IN's stamped date and
\* time and whose duration is the difference of the two timestamps.
C2_Original ==
    HostPassDone =>
      /\ \A i \in OutRows : FirstSameHandleIN(i) # -1 =>
           /\ MatchedIn(m_usageDurationu, i, FirstSameHandleIN(i))
           /\ MatchedIn(m_usageDurationh, i, FirstSameHandleIN(i))
      /\ OneOutOneIn(m_usageDurationu) /\ OneOutOneIn(m_usageDurationh)

\* C2 amended: every OUT event followed later by an IN event with the same
\* handle, with no SHUTDOWN between the OUT and the first such IN, has a
\* Duration Record whose checkin is that IN's stamped date and time and whose
\* duration is the difference of the two timestamps; the input of one OUT and
\* one IN with its handle yields exactly one record, with the OUT's product.
C2_DurationMatching ==
    HostPassDone =>
      /\ \A i \in OutRows :
           (FirstSameHandleIN(i) # -1 /\ ~ShutdownBetween(i, FirstSameHandleIN(i))) =>
             /\ MatchedIn(m_usageDurationu, i, FirstSameHandleIN(i))
             /\ MatchedIn(m_usageDurationh, i, FirstSameHandleIN(i))
      /\ OneOutOneIn(m_usageDurationu) /\ OneOutOneIn(m_usageDurationh)

\* An OUT matched by a later IN across another handle's IN, with dates that
\* are dates, so that the duration is a number of seconds.
C2_Witness ==
    /\ HostPassDone
    /\ \E i \in OutRows :
         /\ FirstSameHandleIN(i) > i + 1
         /\ ~ShutdownBetween(i, FirstSameHandleIN(i))
         /\ TimeDiff(EvTime(FirstSameHandleIN(i)), EvTime(i)).valid
         /\ TimeDiff(EvTime(FirstSameHandleIN(i)), EvTime(i)).secs > 0

\* The last event that carries a date and a time.
StampedKinds == {S_OUT, S_IN, S_DENY, S_START, S_SHUTDOWN}
LastTimestamped ==
    CHOOSE j \in 0..(NumEvents - 1) :
      /\ EvKind(j) \in StampedKinds
      /\ \A k \in (j + 1)..(NumEvents - 1) : EvKind(k) \notin StampedKinds

FallbackIn(table) ==
    \A i \in OutRows :
      IF FirstClose(i) = -1
      THEN /\ RecordOf(table, i)[2] = S_StillCheckedOut
           /\ m_endTimeRow = LastTimestamped
           /\ RecordOf(table, i)[7] =
                DurationToString(TimeDiff(EvTime(LastTimestamped), EvTime(i)))
      ELSE RecordOf(table, i)[2] # S_StillCheckedOut

\* C3: an OUT event with no later IN of its handle and no later SHUTDOWN has a
\* Duration Record whose checkin is "(Still checked out)" and whose duration
\* runs to the last timestamped event of the file, the one at m_endTimeRow;
\* an OUT that finds a close is never marked still checked out.
C3_DurationFallback ==
    /\ UserPassDone => FallbackIn(m_usageDurationu)
    /\ HostPassDone => FallbackIn(m_usageDurationh)

\* An unclosed OUT, the last timestamped event later than it and followed by
\* a PRODUCT event, the duration a positive number of seconds.
C3_Witness ==
    /\ HostPassDone
    /\ \E i \in OutRows :
         /\ FirstClose(i) = -1
         /\ LastTimestamped > i
         /\ LastTimestamped < NumEvents - 1
         /\ TimeDiff(EvTime(LastTimestamped), EvTime(i)).valid
         /\ TimeDiff(EvTime(LastTimestamped), EvTime(i)).secs > 0

EvProduct(j) == At(At(m_eventData, j), IndexProduct)
EvUser(j) == At(At(m_eventData, j), IndexUser)
EvCount(j) == At(At(m_eventData, j), IndexCount)

\* The replay has processed the events before index n.
ReplayedUpTo(n) ==
    \/ pc = "getConcurrentUsage" /\ row >= n
    \/ UserPassDone

LiveCounts == licenseCountByProductAndUser

C4_Step ==
    /\ \A u \in 1..Len(LiveCounts') : \A p \in 1..Len(LiveCounts'[u]) : LiveCounts'[u][p] >= 0
    /\ (pc = "getConcurrentUsage" /\ row < NumEvents /\ EvKind(row) = S_IN) =>
         LET p == getIndex(EvProduct(row), m_uniqueProducts)
             u == getIndex(EvUser(row), m_uniqueUsers)
         IN  LiveCounts[u + 1][p + 1] = 0 => LiveCounts'[u + 1][p + 1] = 0

\* C4: during the replay every per-(user,product) live count is >= 0 after
\* every event, and an IN event for a (user,product) whose live count is 0
\* leaves that live count at 0.
C4_LiveNeverNegative == [][C4_Step]_vars

\* An IN event has just been replayed for a (user,product) no OUT came before.
C4_Witness ==
    /\ pc = "getConcurrentUsage" /\ row >= 1
    /\ EvKind(row - 1) = S_IN
    /\ \A j \in 0..(row - 2) :
         ~(EvKind(j) = S_OUT /\ EvProduct(j) = EvProduct(row - 1) /\ EvUser(j) = EvUser(row - 1))
    /\ LiveCounts[getIndex(EvUser(row - 1), m_uniqueUsers) + 1]
                 [getIndex(EvProduct(row - 1), m_uniqueProducts) + 1] = 0

SnapshotKinds == {S_OUT, S_IN, S_SHUTDOWN}

\* The snapshot row of the event at j: the header is row 1.
SnapshotOf(j) ==
    m_usage[1 + Cardinality({ i \in 0..j : EvKind(i) \in SnapshotKinds })]

\* The cells of product p (counted from 0) in a snapshot row.
TotalCell(snap, p) == snap[2 + 5 * p]
UniqueCell(snap, p) == snap[3 + 5 * p]

\* The events begin with an IN at k: no OUT, IN or SHUTDOWN before it, and it
\* reports a total in use above 0.
MidSessionStart(k) ==
    /\ EvKind(k) = S_IN
    /\ \A j \in 0..(k - 1) : EvKind(j) \notin SnapshotKinds
    /\ atoi(EvCount(k)) > 0

\* C5: when the events begin with an IN (no prior OUT) for a product whose
\* reported total in use is > 0, exactly one snapshot row is emitted for it,
\* showing unique-user count 1 for the product; the carried unique count is 0
\* right after; the snapshot of an immediately following OUT of the product
\* shows unique-user count 1, not 2.
C5_MidSessionStart ==
    \A k \in 0..(NumEvents - 1) : MidSessionStart(k) =>
      LET p == getIndex(EvProduct(k), m_uniqueProducts) IN
      /\ ReplayedUpTo(k + 1) => UniqueCell(SnapshotOf(k), p) = <<"1">>
      /\ (pc = "getConcurrentUsage" /\ row = k + 1) =>
           /\ Len(m_usage) = 2
           /\ uniqueLicenseCountsByProduct[p + 1] = 0
      /\ (/\ k + 1 < NumEvents /\ EvKind(k + 1) = S_OUT /\ EvProduct(k + 1) = EvProduct(k)
          /\ ReplayedUpTo(k + 2)) =>
           UniqueCell(SnapshotOf(k + 1), p) = <<"1">>

\* The IN that begins the events and the OUT of the same product right after
\* it have both been replayed.
C5_Witness ==
    /\ pc = "getConcurrentUsage"
    /\ \E k \in 0..(NumEvents - 2) :
         /\ MidSessionStart(k)
         /\ EvKind(k + 1) = S_OUT /\ EvProduct(k + 1) = EvProduct(k)
         /\ row = k + 2

AllProducts == 0..(Len(m_uniqueProducts) - 1)

\* C6: processing a SHUTDOWN event sets every live count and every unique
\* count to 0 and every total in use to "0", and the snapshot emitted for
\* that SHUTDOWN shows total in use 0 and unique-user count 0 for every
\* product, whatever came before.
C6_ShutdownResets ==
    /\ (pc = "getConcurrentUsage" /\ row >= 1 /\ EvKind(row - 1) = S_SHUTDOWN) =>
         /\ \A u \in 1..Len(LiveCounts) : \A p \in 1..Len(LiveCounts[u]) : LiveCounts[u][p] = 0
         /\ \A p \in AllProducts :
              /\ uniqueLicenseCountsByProduct[p + 1] = 0
              /\ licenseCountsByProduct[p + 1] = <<"0">>
    /\ \A j \in 0..(NumEvents - 1) : (EvKind(j) = S_SHUTDOWN /\ ReplayedUpTo(j + 1)) =>
         \A p \in AllProducts :
           /\ TotalCell(SnapshotOf(j), p) = <<"0">>
           /\ UniqueCell(SnapshotOf(j), p) = <<"0">>

\* A SHUTDOWN has just been replayed right after an OUT that reported a total
\* in use above 0.
C6_Witness ==
    /\ pc = "getConcurrentUsage" /\ row >= 2
    /\ EvKind(row - 1) = S_SHUTDOWN
    /\ EvKind(row - 2) = S_OUT /\ atoi(EvCount(row - 2)) > 0
    /\ Len(m_uniqueProducts) >= 2

DateParts(j) == tokenizeString("/", At(At(m_eventData, j), IndexDate))
YearStampedKinds == {S_OUT, S_IN, S_DENY, S_SHUTDOWN}

\* C7 as stated, for the records addYearToDate stamps: the date of every OUT,
\* IN, DENY and SHUTDOWN record is month/day followed by "/" and a 4-digit
\* year, also when the event precedes the first START or year line.
C7_FourDigitYear ==
    \A j \in 0..(NumEvents - 1) : EvKind(j) \in YearStampedKinds =>
      /\ Len(DateParts(j)) = 3
      /\ Len(DateParts(j)[3]) = 4
      /\ AllDigits(DateParts(j)[3])

\* The rows of m_allData that are events, and the row of the k-th event.
AllKinds == {S_OUT, S_IN, S_DENY, S_START, S_SHUTDOWN, S_PRODUCT}
RowIsEvent(r) == Len(At(m_allData, r)) > 0 /\ At(At(m_allData, r), 0) \in AllKinds
EventRow(k) ==
    CHOOSE r \in 0..(Len(m_allData) - 1) :
      RowIsEvent(r) /\ Cardinality({ q \in 0..(r - 1) : RowIsEvent(q) }) = k
RowIsYearLine(r) ==
    Len(At(m_allData, r)) = 2 /\ Len(tokenizeString("/", At(At(m_allData, r), 0))) = 3
NoYearLineIn(from, to) == \A r \in from..to : ~RowIsYearLine(r)

YearOf(j) == IF Len(DateParts(j)) >= 3 THEN DateParts(j)[3] ELSE << >>
DatedAt(j, month, day, time) ==
    /\ EvKind(j) \in YearStampedKinds
    /\ Len(DateParts(j)) >= 2
    /\ DateParts(j)[1] = month /\ DateParts(j)[2] = day
    /\ At(At(m_eventData, j), IndexTime) = time
IsJan1Midnight(j) == DatedAt(j, <<"0","1">>, <<"0","1">>, <<"0","0",":","0","0">>)

\* C8: of two consecutive OUT/IN/DENY/SHUTDOWN events dated 12/31 23:59 and
\* 01/01 00:00 with no year line or START between them, the second is stamped
\* with the year of the first plus 1, and that year stays the ambient year:
\* it is m_eventYear afterwards and the year of the next stamped record.
C8_YearRollover ==
    \A k \in 0..(NumEvents - 2) :
      (/\ DatedAt(k, <<"1","2">>, <<"3","1">>, <<"2","3",":","5","9">>) /\ IsJan1Midnight(k + 1)
       /\ NoYearLineIn(EventRow(k) + 1, EventRow(k + 1) - 1)) =>
        /\ atoi(YearOf(k + 1)) = atoi(YearOf(k)) + 1
        /\ (/\ pc = "extractEvents" /\ k + 1 = NumEvents - 1
            /\ NoYearLineIn(EventRow(k + 1) + 1, row - 1)) =>
             m_eventYear = YearOf(k + 1)
        /\ (/\ k + 2 < NumEvents /\ EvKind(k + 2) \in YearStampedKinds
            /\ ~IsJan1Midnight(k + 2)
            /\ NoYearLineIn(EventRow(k + 1) + 1, EventRow(k + 2) - 1)) =>
             YearOf(k + 2) = YearOf(k + 1)

\* An event of 12/31 23:59 stamped 2021 and right after it an event of
\* 01/01 00:00, with no year line between.
C8_Witness ==
    \E k \in 0..(NumEvents - 2) :
      /\ DatedAt(k, <<"1","2">>, <<"3","1">>, <<"2","3",":","5","9">>) /\ IsJan1Midnight(k + 1)
      /\ NoYearLineIn(EventRow(k) + 1, EventRow(k + 1) - 1)
      /\ YearOf(k) = <<"2","0","2","1">> /\ YearOf(k + 1) = <<"2","0","2","2">>

HasMarker(line) == Find(line, S_Marker)

\* A line of the form MM/DD HH:MM (tag) with a tag other than rlm.
IsLegacyForm(line) ==
    LET t == tokenizeString(" ", line) IN
    /\ Len(t) >= 3
    /\ Len(tokenizeString("/", t[1])) = 2
    /\ Len(tokenizeString(":", t[2])) = 2
    /\ Head(t[3]) = "(" /\ t[3][Len(t[3])] = ")"
    /\ t[3] # <<"(","r","l","m",")">>

RaisedInvalidFormat == pc = "failed" /\ exception.what = "InvalidFileFormatException"

\* C9: an input with a line of the form MM/DD HH:MM (tag), tag other than
\* rlm, and without the Report Log marker makes findFileFormat raise
\* InvalidFileFormatException; it never returns with the format ISVLog.
C9_LegacyRejected ==
    pc # "findFileFormat" =>
      /\ (/\ \E i \in 1..Len(m_rawData) : IsLegacyForm(m_rawData[i])
          /\ \A i \in 1..Len(m_rawData) : ~HasMarker(m_rawData[i])) => RaisedInvalidFormat
      /\ m_fileFormat = "ISVLog" => RaisedInvalidFormat

\* findFileFormat has run on an input with a legacy line and no marker.
C9_Witness ==
    /\ pc # "findFileFormat"
    /\ \E i \in 1..Len(m_rawData) : IsLegacyForm(m_rawData[i])
    /\ \A i \in 1..Len(m_rawData) : ~HasMarker(m_rawData[i])
    /\ m_fileFormat = "ISVLog"

\* The lines format detection is meant to scan: the first 20, or all of fewer.
ScannedPrefix ==
    1..(IF Len(m_rawData) < LinesToSearch THEN Len(m_rawData) ELSE LinesToSearch)

\* C10 as stated: an input whose first 20 lines have neither the marker nor a
\* legacy line raises InvalidFileFormatException, also when the marker is on a
\* line after the 20th.
C10_OnlyFirstLines ==
    (/\ pc # "findFileFormat"
     /\ \A i \in ScannedPrefix : ~HasMarker(m_rawData[i]) /\ ~IsLegacyForm(m_rawData[i]))
      => RaisedInvalidFormat

\* C11 as stated: marker precedence. An input whose scanned lines hold the
\* literal "RLM Report Log Format" is classified ReportLog and processed, also
\* when a line of the legacy form (tag other than rlm) comes on an earlier line.
C11_MarkerPrecedence ==
    (/\ pc # "findFileFormat"
     /\ \E i \in ScannedPrefix : HasMarker(m_rawData[i]))
      => (m_fileFormat = "ReportLog" /\ ~RaisedInvalidFormat)

\* The number of fields the column mapping of a kind requires: its highest
\* mapped source column + 1.
RequiredFields(kind) ==
    CASE kind = S_OUT -> 18 [] kind = S_IN -> 13 [] kind = S_DENY -> 12
      [] kind = S_START -> 4 [] kind = S_SHUTDOWN -> 5 [] kind = S_PRODUCT -> 6

\* Row r is of an event kind and has fewer fields than the kind requires.
ShortRow(r) ==
    /\ RowIsEvent(r)
    /\ Len(At(m_allData, r)) < RequiredFields(At(At(m_allData, r), 0))

\* Extraction has dealt with row r: it went past it or it stopped.
ExtractionReached(r) == ~(pc = "extractEvents" /\ row <= r)

\* C12 as stated: a row whose kind field is OUT, IN, DENY, START, SHUTDOWN or
\* PRODUCT and that has fewer fields than the kind's column mapping requires
\* stops extraction with EventDataException carrying row index + 1; the row
\* is not skipped, no other error is raised, no EventRecord is appended for it.
C12_TooFewFields ==
    \A r \in 0..(Len(m_allData) - 1) :
      (/\ ShortRow(r) /\ \A q \in 0..(r - 1) : ~ShortRow(q)
       /\ ExtractionReached(r)) =>
        /\ pc = "failed"
        /\ exception = [what |-> "EventDataException", row |-> r + 1]
        /\ NumEvents = Cardinality({ q \in 0..(r - 1) : RowIsEvent(q) })

EvVersion(j) == At(At(m_eventData, j), IndexVersion)
EvHost(j) == At(At(m_eventData, j), IndexHost)

\* The table is the header and then, for the k-th OUT event, row k + 1 with
\* the checkout stamp, product, version, user and host of that OUT event.
OneRecordPerOut(table) ==
    /\ Len(table) = 1 + Cardinality(OutRows)
    /\ table[1] = DurationHeader
    /\ \A i \in OutRows :
         LET rec == RecordOf(table, i) IN
         /\ Len(rec) = 7
         /\ rec[1] = EvStamp(i)
         /\ rec[3] = EvProduct(i) /\ rec[4] = EvVersion(i)
         /\ rec[5] = EvUser(i) /\ rec[6] = EvHost(i)

\* C13: after each reconciliation pass the duration table holds the header
\* row followed by exactly one Duration Record per OUT event, in the order of
\* the OUT events, each with the product, version, user and host of its own
\* OUT event; no record is produced for any other event kind.
C13_OneRecordPerOut ==
    /\ UserPassDone => OneRecordPerOut(m_usageDurationu)
    /\ HostPassDone => OneRecordPerOut(m_usageDurationh)

\* Both passes are done on two OUT events of different users and hosts with
\* an event of another kind among the events.
C13_Witness ==
    /\ HostPassDone
    /\ \E i, j \in OutRows : i < j /\ EvUser(i) # EvUser(j) /\ EvHost(i) # EvHost(j)
    /\ \E k \in 0..(NumEvents - 1) : EvKind(k) \in {S_IN, S_DENY, S_SHUTDOWN}
    /\ Len(m_usageDurationh) = 3

LicenseKinds == {S_OUT, S_IN, S_DENY}

\* The names the events of a sequence carry, in event order: the product of
\* an OUT, IN, DENY or PRODUCT event, the user or host of an OUT, IN or DENY.
RECURSIVE ProductNames(_)
ProductNames(events) ==
    IF events = << >> THEN << >>
    ELSE LET n == Len(events)
             front == ProductNames(SubSeq(events, 1, n - 1))
             kind == At(events[n], IndexEvent)
         IN  IF kind \in LicenseKinds THEN Append(front, At(events[n], IndexProduct))
             ELSE IF kind = S_PRODUCT THEN Append(front, At(events[n], 1))
             ELSE front

RECURSIVE FieldNames(_, _)
FieldNames(events, index) ==
    IF events = << >> THEN << >>
    ELSE LET n == Len(events)
             front == FieldNames(SubSeq(events, 1, n - 1), index)
         IN  IF At(events[n], IndexEvent) \in LicenseKinds
             THEN Append(front, At(events[n], index))
             ELSE front

\* Registry `list` holds each of the names once, ordered by first occurrence.
IsRegistryOf(list, names) ==
    /\ \A k \in 1..Len(names) : \E i \in 1..Len(list) : list[i] = names[k]
    /\ \A i \in 1..Len(list) : \E k \in 1..Len(names) : list[i] = names[k]
    /\ \A i, j \in 1..Len(list) : i # j => list[i] # list[j]
    /\ \A i, j \in 1..Len(list) : i < j =>
         LET first(x) == CHOOSE k \in 1..Len(names) :
                           names[k] = x /\ \A q \in 1..(k - 1) : names[q] # x
         IN  first(list[i]) < first(list[j])

\* Every name registered keeps its index, and the index is the position.
StableIndex(list, listAfter) ==
    /\ \A i \in 1..Len(list) : getIndex(list[i], listAfter) = getIndex(list[i], list)
    /\ \A i \in 1..Len(listAfter) : getIndex(listAfter[i], listAfter) = i - 1

C14_Step ==
    /\ IsRegistryOf(m_uniqueProducts', ProductNames(m_eventData'))
    /\ IsRegistryOf(m_uniqueUsers', FieldNames(m_eventData', IndexUser))
    /\ IsRegistryOf(m_uniqueHosts', FieldNames(m_eventData', IndexHost))
    /\ StableIndex(m_uniqueProducts, m_uniqueProducts')
    /\ StableIndex(m_uniqueUsers, m_uniqueUsers')
    /\ StableIndex(m_uniqueHosts, m_uniqueHosts')

\* C14: each of the registries of products, users and hosts contains every
\* distinct name of the event sequence exactly once, in the order of first
\* occurrence; getIndex of a name is the same on every lookup of the run, and
\* a name first seen earlier has a smaller index than one first seen later.
C14_Registries == [][C14_Step]_vars

\* A run is constructed whose second product, user and host were each seen
\* after the first, and whose first user is named by two events.
C14_Witness ==
    /\ pc = "constructed"
    /\ m_uniqueProducts = <<PB, PA>>
    /\ Len(m_uniqueUsers) = 2 /\ Len(m_uniqueHosts) = 2
    /\ Cardinality({ j \in 0..(NumEvents - 1) :
                       EvKind(j) \in LicenseKinds /\ EvUser(j) = m_uniqueUsers[1] }) = 2

ExtractionDone ==
    pc \in {"getConcurrentUsage", "getUsageDurationHost", "getDeniedRequests", "constructed",
            "published"}

\* The lookups the later stages make for the event at j all find their name.
LookupsFind(j) ==
    /\ EvKind(j) \in {S_OUT, S_IN} =>
         /\ getIndex(EvProduct(j), m_uniqueProducts) \in 0..(Len(m_uniqueProducts) - 1)
         /\ getIndex(EvUser(j), m_uniqueUsers) \in 0..(Len(m_uniqueUsers) - 1)
    /\ EvKind(j) = S_PRODUCT =>
         getIndex(At(At(m_eventData, j), 1), m_uniqueProducts) \in 0..(Len(m_uniqueProducts) - 1)
    /\ EvKind(j) = S_OUT =>
         getIndex(EvHost(j), m_uniqueHosts) \in 0..(Len(m_uniqueHosts) - 1)

\* C15: on every input on which format detection and extractEvents complete
\* without error, every getIndex lookup of getConcurrentUsage (product and
\* user of OUT and IN, product of PRODUCT), getUsageDurationUser (user and
\* product of OUT) and getUsageDurationHost (host and product of OUT) finds
\* its name: InvalidIndexException is never raised.
C15_NoInvalidIndex ==
    /\ exception.what # "InvalidIndexException"
    /\ ExtractionDone => \A j \in 0..(NumEvents - 1) : LookupsFind(j)

\* All three stages have run on events with an OUT, an IN and a PRODUCT.
C15_Witness ==
    /\ pc = "constructed"
    /\ \E i, j, k \in 0..(NumEvents - 1) :
         EvKind(i) = S_OUT /\ EvKind(j) = S_IN /\ EvKind(k) = S_PRODUCT

ZeroDuration == [valid |-> TRUE, secs |-> 0]

\* The duration of the OUT event at j, as its Duration Record shows it.
OutDuration(j) == UsageDuration(m_eventData, j, m_endTimeRow)

\* Entry [i][p] of the matrix of a pass once the events before index k are
\* processed: 0 at first, and the duration of every OUT event of identity i
\* and product p added in turn.
RECURSIVE EntryAfter(_, _, _, _, _)
EntryAfter(k, identityIndex, identities, i, p) ==
    IF k = 0 THEN ZeroDuration
    ELSE LET before == EntryAfter(k - 1, identityIndex, identities, i, p) IN
         IF /\ EvKind(k - 1) = S_OUT
            /\ getIndex(At(At(m_eventData, k - 1), identityIndex), identities) = i
            /\ getIndex(EvProduct(k - 1), m_uniqueProducts) = p
         THEN TimeAdd(before, OutDuration(k - 1))
         ELSE before

Decreases(a, b) == a.valid /\ b.valid /\ b.secs < a.secs

TotalsOf(total, identityIndex, identities) ==
    /\ Len(total) = Len(identities)
    /\ \A i \in 0..(Len(identities) - 1) :
         /\ Len(total[i + 1]) = Len(m_uniqueProducts)
         /\ \A p \in AllProducts :
              /\ total[i + 1][p + 1] = EntryAfter(NumEvents, identityIndex, identities, i, p)
              /\ \A k \in 1..NumEvents :
                   ~Decreases(EntryAfter(k - 1, identityIndex, identities, i, p),
                              EntryAfter(k, identityIndex, identities, i, p))

\* C16 as stated: each of the two matrices starts with every entry 0; an OUT
\* event adds its duration to the one entry [identity of the OUT][product of
\* the OUT] and changes no other; no entry ever decreases; after the pass
\* entry [i][p] is the sum of the durations of the Duration Records whose OUT
\* has identity i and product p.
C16_TotalsMatrix ==
    /\ UserPassDone => TotalsOf(m_totalDurationu, IndexUser, m_uniqueUsers)
    /\ HostPassDone => TotalsOf(m_totalDurationh, IndexHost, m_uniqueHosts)

DenyRows == { j \in 0..(NumEvents - 1) : EvKind(j) = S_DENY }

\* The Denial Record of the DENY event at j: the header is row 1.
DenialOf(j) == m_deniedRequest[1 + Cardinality({ i \in DenyRows : i <= j })]

\* C17: the denied-request table holds the header row followed by exactly one
\* Denial Record per DENY event, in event order, each made of the stamped
\* date and time, the product, version, user and host of that DENY event and
\* the value of column 7 of its source row; no other event kind gives a record.
C17_DenialCollector ==
    pc = "constructed" =>
      /\ Len(m_deniedRequest) = 1 + Cardinality(DenyRows)
      /\ m_deniedRequest[1] = DeniedHeader
      /\ \A j \in DenyRows :
           DenialOf(j) = <<EvStamp(j), EvProduct(j), EvVersion(j), EvUser(j), EvHost(j),
                           At(At(m_allData, EventRow(j)), 7)>>

\* The table is built from events with two DENY events and an IN between.
C17_Witness ==
    /\ pc = "constructed"
    /\ Len(m_deniedRequest) = 3
    /\ \E i, j \in DenyRows : \E k \in 0..(NumEvents - 1) :
         i < k /\ k < j /\ EvKind(k) = S_IN

\* The stage that runs after a stage that completes.
NextStage(stage) ==
    CASE stage = "findFileFormat" -> "parseDataInto2DVector"
      [] stage = "parseDataInto2DVector" -> "extractEvents"
      [] stage = "extractEvents" -> "getConcurrentUsage"
      [] stage = "getConcurrentUsage" -> "getUsageDurationHost"
      [] stage = "getUsageDurationHost" -> "getDeniedRequests"
      [] stage = "getDeniedRequests" -> "constructed"
      [] stage = "constructed" -> "published"
      [] OTHER -> "none"

\* The tables of the stages that have not run are empty.
LaterTablesEmpty(stage) ==
    /\ stage = "findFileFormat" => m_allData = << >>
    /\ stage \in {"findFileFormat", "parseDataInto2DVector"} => m_eventData = << >>
    /\ stage \in {"findFileFormat", "parseDataInto2DVector", "extractEvents"} =>
         /\ m_usage = << >> /\ m_usageDurationu = << >> /\ m_totalDurationu = << >>
    /\ stage # "getUsageDurationHost" =>
         /\ m_usageDurationh = << >> /\ m_totalDurationh = << >>
    /\ m_deniedRequest = << >>

C18_Step ==
    /\ pc' # pc => (pc' = "failed" \/ pc' = NextStage(pc))
    /\ pc' = "failed" <=> exception' # NoException
    /\ (pc' = "failed" /\ pc # "failed") => \E stage \in {pc} : LaterTablesEmpty(stage)'
    /\ pc = "failed" => UNCHANGED vars
    /\ pc' = "published" => (pc = "constructed" /\ exception = NoException)

\* C18: the stages run in the fixed order format detection, tokenizing, event
\* extraction, concurrency accumulation, user durations, host durations,
\* denials; when a stage raises an error no later stage runs and no report
\* table is published.
C18_FailFast == [][C18_Step]_vars

\* Extraction has stopped on its third row, after the START event of the
\* second row was extracted, and no later stage has left a table.
C18_Witness ==
    /\ pc = "failed" /\ exception = [what |-> "EventDataException", row |-> 3]
    /\ NumEvents = 1 /\ m_usage = << >> /\ m_deniedRequest = << >>

\* The fixed column list of a kind, in record order.
ColumnList(kind) ==
    CASE kind = S_OUT -> <<0, 16, 17, 1, 2, 4, 5, 8, 10, 9>>
      [] kind = S_IN -> <<0, 11, 12, 2, 3, 4, 5, 8, 10, 9>>
      [] kind = S_DENY -> <<0, 10, 11, 1, 2, 3, 4, 7, 7>>
      [] kind = S_START -> <<0, 2, 3, 1>>
      [] kind = S_SHUTDOWN -> <<0, 3, 4>>
      [] kind = S_PRODUCT -> <<0, 1, 2, 4, 5>>

\* The record is the source value, or the source value with "/" and a year
\* appended to it.
IsValueWithYear(value, source) ==
    /\ Len(value) > Len(source)
    /\ SubSeq(value, 1, Len(source) + 1) = source \o <<"/">>

\* The event at k is the projection of its source row by the column list of
\* its kind; the date of a stamped kind has the year suffix.
IsProjection(k) ==
    LET rec == At(m_eventData, k)
        src == At(m_allData, EventRow(k))
        cols == ColumnList(At(src, 0))
    IN  /\ Len(rec) = Len(cols)
        /\ \A c \in 1..Len(cols) :
             IF c = IndexDate + 1 /\ At(src, 0) \in YearStampedKinds
             THEN IsValueWithYear(rec[c], At(src, cols[c]))
             ELSE rec[c] = At(src, cols[c])

\* C19: for every row accepted as an event, the EventRecord is the projection
\* of the row by its kind's fixed column list, in the order OUT
\* (0,16,17,1,2,4,5,8,10,9), IN (0,11,12,2,3,4,5,8,10,9), DENY
\* (0,10,11,1,2,3,4,7,7), START (0,2,3,1), SHUTDOWN (0,3,4), PRODUCT
\* (0,1,2,4,5); apart from the year suffix on the date no value is altered.
C19_PositionalSchema == \A k \in 0..(NumEvents - 1) : IsProjection(k)

\* The events extracted are a START, an OUT, an IN and a DENY.
C19_Witness ==
    /\ NumEvents = 4
    /\ { EvKind(k) : k \in 0..3 } = {S_START, S_OUT, S_IN, S_DENY}

\* The OUT, IN and SHUTDOWN events among the events before index n.
SnapshotRows(n) == { j \in 0..(n - 1) : EvKind(j) \in SnapshotKinds }

\* The number of events the replay has processed.
Replayed ==
    IF pc = "getConcurrentUsage" THEN row
    ELSE IF UserPassDone THEN NumEvents
    ELSE 0

\* The table is the header and one row for each OUT, IN and SHUTDOWN event
\* replayed, the k-th row stamped with the date and time of the k-th of them.
SnapshotsInOrder ==
    (pc = "getConcurrentUsage" \/ UserPassDone) =>
      /\ Len(m_usage) = 1 + Cardinality(SnapshotRows(Replayed))
      /\ m_usage[1] = UsageHeader(m_uniqueProducts)
      /\ \A j \in SnapshotRows(Replayed) :
           /\ SnapshotOf(j)[1] = EvStamp(j)
           /\ Len(SnapshotOf(j)) = 1 + 5 * Len(m_uniqueProducts)

C20_Step ==
    /\ SnapshotsInOrder'
    /\ Len(m_usage') >= Len(m_usage)
    /\ \A i \in 1..Len(m_usage) : m_usage'[i] = m_usage[i]

\* C20: the concurrent-usage table holds the header row followed by exactly
\* one snapshot row per OUT, IN and SHUTDOWN event (none for PRODUCT, START or
\* DENY), appended in event order; the k-th snapshot carries the stamped date
\* and time of the k-th OUT/IN/SHUTDOWN event, and a row once appended is
\* never changed or reordered.
C20_SnapshotSequence == [][C20_Step]_vars

\* The replay is over on events with an OUT, then a PRODUCT or DENY event,
\* then an IN or SHUTDOWN: two snapshot rows under the header.
C20_Witness ==
    /\ UserPassDone
    /\ Len(m_usage) = 3
    /\ \E i, j, k \in 0..(NumEvents - 1) :
         /\ i < j /\ j < k
         /\ EvKind(i) = S_OUT /\ EvKind(j) \in {S_PRODUCT, S_DENY}
         /\ EvKind(k) \in {S_IN, S_SHUTDOWN}

AllUsers == 0..(Len(m_uniqueUsers) - 1)

\* The replay processes the event at `row`, which is of one of the kinds.
Replaying(kinds) ==
    /\ pc = "getConcurrentUsage" /\ row < NumEvents /\ EvKind(row) \in kinds
    /\ row' = row + 1

\* The counters of every (user, product) but (u, p), and of every product but
\* p, are left as they were.
OthersUnchanged(u, p) ==
    /\ \A v \in AllUsers : \A q \in AllProducts :
         (v # u \/ q # p) =>
           licenseCountByProductAndUser'[v + 1][q + 1] = licenseCountByProductAndUser[v + 1][q + 1]
    /\ \A q \in AllProducts : q # p =>
         /\ uniqueLicenseCountsByProduct'[q + 1] = uniqueLicenseCountsByProduct[q + 1]
         /\ licenseCountsByProduct'[q + 1] = licenseCountsByProduct[q + 1]
         /\ reservedLicenseUsageCount'[q + 1] = reservedLicenseUsageCount[q + 1]
    /\ maxLicenseCountsByProduct' = maxLicenseCountsByProduct
    /\ maxreservedLicenseCountsByProduct' = maxreservedLicenseCountsByProduct

C21_Step ==
    Replaying({S_OUT}) =>
      LET p == getIndex(EvProduct(row), m_uniqueProducts)
          u == getIndex(EvUser(row), m_uniqueUsers)
      IN  /\ LiveCounts'[u + 1][p + 1] = LiveCounts[u + 1][p + 1] + 1
          /\ uniqueLicenseCountsByProduct'[p + 1] =
               IF LiveCounts'[u + 1][p + 1] = 1
               THEN uniqueLicenseCountsByProduct[p + 1] + 1
               ELSE uniqueLicenseCountsByProduct[p + 1]
          /\ licenseCountsByProduct'[p + 1] = EvCount(row)
          /\ reservedLicenseUsageCount'[p + 1] = At(At(m_eventData, row), 9)
          /\ OthersUnchanged(u, p)
          /\ Len(m_usage') = Len(m_usage) + 1

\* C21: an OUT event for (user u, product p) increases live[u][p] by exactly
\* 1; it increases unique[p] by exactly 1 if and only if live[u][p] became
\* exactly 1 and otherwise leaves it unchanged; it sets total-in-use[p] and
\* reserved-in-use[p] to the event's own count and reserved fields; it
\* changes no counter of any other product or user; it emits one snapshot.
C21_OutTransition == [][C21_Step]_vars

\* The second OUT of one user for one product has been replayed: the live
\* count is 2 and the unique count of the product is still 1.
C21_Witness ==
    /\ pc = "getConcurrentUsage" /\ row >= 2 /\ EvKind(row - 1) = S_OUT
    /\ LET p == getIndex(EvProduct(row - 1), m_uniqueProducts)
           u == getIndex(EvUser(row - 1), m_uniqueUsers)
       IN  LiveCounts[u + 1][p + 1] = 2 /\ uniqueLicenseCountsByProduct[p + 1] = 1

C22_Step ==
    Replaying({S_IN}) =>
      LET p == getIndex(EvProduct(row), m_uniqueProducts)
          u == getIndex(EvUser(row), m_uniqueUsers)
      IN  uniqueLicenseCountsByProduct'[p + 1] =
            IF LiveCounts[u + 1][p + 1] = 1 /\ uniqueLicenseCountsByProduct[p + 1] > 0
            THEN uniqueLicenseCountsByProduct[p + 1] - 1
            ELSE uniqueLicenseCountsByProduct[p + 1]

\* C22 as stated: an IN event for (user u, product p) decrements unique[p] by
\* 1 exactly when its decrement brings live[u][p] from 1 to 0 and unique[p]
\* is above 0; an IN event for a (u, p) whose live count was already 0 does
\* not decrement unique[p], so it never removes another user who still holds
\* p from the unique count.
C22_InTransition == [][C22_Step]_vars

\* The cells of product p (counted from 0) in a snapshot row that show the
\* configured limit and the reserved limit.
LimitCell(snap, p) == snap[4 + 5 * p]
ReservedLimitCell(snap, p) == snap[6 + 5 * p]

\* The last PRODUCT event before index j that names the product, -1 if none.
LastProductEvent(j, name) ==
    LET ps == { k \in 0..(j - 1) : EvKind(k) = S_PRODUCT /\ At(At(m_eventData, k), 1) = name }
    IN  IF ps = {} THEN -1 ELSE CHOOSE k \in ps : \A q \in ps : q <= k

\* Every snapshot replayed shows, for every product, the limits of the last
\* PRODUCT event of that product before it.
SnapshotsShowLimits ==
    (pc = "getConcurrentUsage" \/ UserPassDone) =>
      \A j \in SnapshotRows(Replayed) : \A p \in AllProducts :
        LET k == LastProductEvent(j, m_uniqueProducts[p + 1])
            src == At(m_allData, EventRow(k))
        IN  k # -1 => /\ LimitCell(SnapshotOf(j), p) = At(src, 4)
                      /\ ReservedLimitCell(SnapshotOf(j), p) = At(src, 5)

C23_Step ==
    /\ SnapshotsShowLimits'
    /\ Replaying({S_PRODUCT}) =>
         LET p == getIndex(At(At(m_eventData, row), 1), m_uniqueProducts)
             src == At(m_allData, EventRow(row))
         IN  /\ maxLicenseCountsByProduct'[p + 1] = At(src, 4)
             /\ maxreservedLicenseCountsByProduct'[p + 1] = At(src, 5)
             /\ \A q \in AllProducts : q # p =>
                  /\ maxLicenseCountsByProduct'[q + 1] = maxLicenseCountsByProduct[q + 1]
                  /\ maxreservedLicenseCountsByProduct'[q + 1] =
                       maxreservedLicenseCountsByProduct[q + 1]
             /\ UNCHANGED <<licenseCountByProductAndUser, uniqueLicenseCountsByProduct,
                            licenseCountsByProduct, reservedLicenseUsageCount, m_usage>>

\* C23: a PRODUCT event sets the configured limit and the reserved limit of
\* its product from source columns 4 and 5 of its row, changes no live count,
\* unique count, total-in-use or reserved-in-use value and no limit of any
\* other product, and emits no snapshot; every later snapshot shows the new
\* limits until the next PRODUCT event for that product.
C23_ProductTransition == [][C23_Step]_vars

\* A PRODUCT event was replayed between two OUT events, one of them of
\* another product, and both snapshots are in the table.
C23_Witness ==
    /\ UserPassDone /\ Len(m_uniqueProducts) = 2 /\ Len(m_usage) = 3
    /\ \E i, j, k \in 0..(NumEvents - 1) :
         /\ i < j /\ j < k
         /\ EvKind(i) = S_OUT /\ EvKind(j) = S_PRODUCT /\ EvKind(k) = S_OUT
         /\ LimitCell(SnapshotOf(k), getIndex(At(At(m_eventData, j), 1), m_uniqueProducts))
              = <<"5">>

C24_Step ==
    Replaying({S_START, S_DENY}) =>
      UNCHANGED <<licenseCountByProductAndUser, uniqueLicenseCountsByProduct,
                  licenseCountsByProduct, reservedLicenseUsageCount,
                  maxLicenseCountsByProduct, maxreservedLicenseCountsByProduct, m_usage>>

\* C24: the replay of a START or DENY event changes no counter (live counts,
\* unique counts, totals in use, reserved in use, limits) and emits no
\* snapshot; a START that no SHUTDOWN precedes does not reset the counts.
C24_StartDenyIgnored == [][C24_Step]_vars

\* The replay is past a START and a DENY that follow an OUT with no SHUTDOWN
\* between them, and the live count of the OUT is still held.
C24_Witness ==
    /\ pc = "getConcurrentUsage"
    /\ \E i, j, k \in 0..(row - 1) :
         /\ i < j /\ i < k
         /\ EvKind(i) = S_OUT /\ EvKind(j) = S_START /\ EvKind(k) = S_DENY
         /\ \A q \in 0..(row - 1) : EvKind(q) # S_SHUTDOWN /\ EvKind(q) # S_IN
         /\ LiveCounts[getIndex(EvUser(i), m_uniqueUsers) + 1]
                      [getIndex(EvProduct(i), m_uniqueProducts) + 1] = 1
         /\ Len(m_usage) = 2

\* The year a year line carries: the third part of its first field.
YearLineYear(r) == tokenizeString("/", At(At(m_allData, r), 0))[3]

\* The events of rows from..to: none is a START, none is stamped 01/01 00:00.
NoStartOrRolloverIn(from, to) ==
    \A k \in 0..(NumEvents - 1) :
      (from <= EventRow(k) /\ EventRow(k) <= to) =>
        EvKind(k) # S_START /\ ~IsJan1Midnight(k)

\* Every stamped event that follows a year line, with no other year line,
\* START or rollover up to it, carries the year of the line.
StampedWithLineYear ==
    \A r \in 0..(Len(m_allData) - 1) : \A j \in 0..(NumEvents - 1) :
      (/\ RowIsYearLine(r) /\ EvKind(j) \in YearStampedKinds
       /\ r < EventRow(j)
       /\ NoYearLineIn(r + 1, EventRow(j))
       /\ NoStartOrRolloverIn(r + 1, EventRow(j))
       /\ ~(pc = "failed" /\ j = NumEvents - 1)) =>
        YearOf(j) = YearLineYear(r)

C25_Step ==
    /\ StampedWithLineYear'
    /\ (pc = "extractEvents" /\ row < Len(m_allData) /\ RowIsYearLine(row)) =>
         /\ m_eventYear' = YearLineYear(row)
         /\ row' = row + 1
         /\ UNCHANGED <<m_eventData, m_denialEvents, m_shutdownEvents, m_startEvents,
                        m_uniqueProducts, m_uniqueUsers, m_uniqueHosts, m_endTimeRow>>

\* C25: a row of exactly 2 fields whose first field has 3 parts around "/"
\* sets the ambient year to the third part, appends no EventRecord, changes
\* no registry and leaves m_endTimeRow alone; every OUT/IN/DENY/SHUTDOWN event
\* after it is stamped with that year until the next year line, START record
\* or rollover increment.
C25_YearMarkerLine == [][C25_Step]_vars

\* A year line of 2021 came after an event stamped with another year and
\* before an event that is stamped 2021.
C25_Witness ==
    /\ pc = "getConcurrentUsage"
    /\ \E r \in 0..(Len(m_allData) - 1) : \E i, j \in 0..(NumEvents - 1) :
         /\ RowIsYearLine(r) /\ EventRow(i) < r /\ r < EventRow(j)
         /\ EvKind(i) = S_START
         /\ EvKind(j) \in YearStampedKinds
         /\ YearOf(j) = <<"2","0","2","1">>
         /\ m_endTimeRow = j

\* The row is a START row with its four fields.
RowIsFullStart(r) ==
    /\ Len(At(m_allData, r)) >= 4 /\ At(At(m_allData, r), 0) = S_START
    /\ Len(tokenizeString("/", At(At(m_allData, r), 2))) = 3

\* Every stamped event that follows a START record, with no year line, other
\* START or rollover up to it, carries the year of the date of the START.
StampedWithStartYear ==
    \A s, j \in 0..(NumEvents - 1) :
      (/\ EvKind(s) = S_START /\ EvKind(j) \in YearStampedKinds /\ s < j
       /\ Len(DateParts(s)) = 3
       /\ NoYearLineIn(EventRow(s) + 1, EventRow(j))
       /\ NoStartOrRolloverIn(EventRow(s) + 1, EventRow(j))
       /\ ~(pc = "failed" /\ j = NumEvents - 1)) =>
        YearOf(j) = DateParts(s)[3]

C26_Step ==
    /\ StampedWithStartYear'
    /\ (pc = "extractEvents" /\ row < Len(m_allData) /\ RowIsFullStart(row)) =>
         LET src == At(m_allData, row)
             record == <<S_START, At(src, 2), At(src, 3), At(src, 1)>>
         IN  /\ m_eventData' = Append(m_eventData, record)
             /\ m_eventYear' = tokenizeString("/", At(src, 2))[3]
             /\ m_serverName' = At(src, 1)
             /\ m_startEvents' = Append(m_startEvents, record)
             /\ UNCHANGED <<m_uniqueProducts, m_uniqueUsers, m_uniqueHosts>>

\* C26: a START row appends an EventRecord whose date is the full date of the
\* row with no year suffix added, sets the ambient year to the year part of
\* that date so that the following events are stamped with it, sets the
\* server name to the server field of the row, appends the record to the
\* start events, and registers no product, user or host.
C26_StartHandling == [][C26_Step]_vars

\* A START of 2022 came after a year line of 2021 and before an event, and the
\* event is stamped 2022.
C26_Witness ==
    /\ pc = "getConcurrentUsage"
    /\ m_serverName = <<"s","r","v">> /\ Len(m_startEvents) = 1
    /\ \E r \in 0..(Len(m_allData) - 1) : \E s, j \in 0..(NumEvents - 1) :
         /\ RowIsYearLine(r) /\ YearLineYear(r) = <<"2","0","2","1">>
         /\ r < EventRow(s) /\ s < j
         /\ EvKind(s) = S_START /\ EvKind(j) \in YearStampedKinds
         /\ At(At(m_eventData, s), IndexDate) = <<"0","1","/","0","1","/","2","0","2","2">>
         /\ YearOf(j) = <<"2","0","2","2">>

\* m_endTimeRow is the index of the last OUT, IN, DENY, START or SHUTDOWN
\* record, once there is one.
EndTimeRowIsLast ==
    ((pc = "extractEvents" \/ ExtractionDone)
       /\ \E j \in 0..(NumEvents - 1) : EvKind(j) \in StampedKinds) =>
      /\ m_endTimeRow = LastTimestamped
      /\ Len(At(m_eventData, m_endTimeRow)) > IndexTime

C27_Step ==
    /\ EndTimeRowIsLast'
    /\ (/\ pc = "extractEvents" /\ row < Len(m_allData) /\ row' = row + 1
        /\ (~RowIsEvent(row) \/ At(At(m_allData, row), 0) = S_PRODUCT)) =>
         m_endTimeRow' = m_endTimeRow

\* C27: after extractEvents has processed a prefix of the rows with at least
\* one OUT, IN, DENY, START or SHUTDOWN event, m_endTimeRow is the index in
\* m_eventData of the last such event appended; PRODUCT events and rows that
\* are no events never change it, so its record has a date and a time.
C27_EndTimeRow == [][C27_Step]_vars

\* A SHUTDOWN was extracted after another event and a PRODUCT row after it:
\* m_endTimeRow stays at the SHUTDOWN record.
C27_Witness ==
    /\ pc = "extractEvents" /\ NumEvents = 4
    /\ EvKind(2) = S_SHUTDOWN /\ EvKind(3) = S_PRODUCT
    /\ m_endTimeRow = 2

\* The sum over all identities of the totals of product p (counted from 0).
RECURSIVE SumOverIdentities(_, _)
SumOverIdentities(total, p) ==
    IF total = << >> THEN ZeroDuration
    ELSE TimeAdd(SumOverIdentities(SubSeq(total, 1, Len(total) - 1), p),
                 total[Len(total)][p + 1])

CreatedRecord(k) ==
    LET src == At(m_allData, EventRow(k))
        cols == ColumnList(At(src, 0))
    IN  [c \in 1..Len(cols) |-> At(src, cols[c])]

\* The record at k is the created record with "/" and a year appended to its
\* date and nothing else altered; or the created record itself.
ModifiedOnce(k) ==
    LET rec == At(m_eventData, k)
        created == CreatedRecord(k)
    IN  /\ Len(rec) = Len(created)
        /\ \A c \in 1..Len(created) :
             IF c = IndexDate + 1 THEN IsValueWithYear(rec[c], created[c])
             ELSE rec[c] = created[c]
Unmodified(k) == At(m_eventData, k) = CreatedRecord(k)

\* A step of a stage after extractEvents leaves the output of extractEvents
\* alone, and no step changes a record that extractEvents has completed.
DownstreamReadOnly ==
    /\ pc \in {"getConcurrentUsage", "getUsageDurationHost", "getDeniedRequests"} =>
         UNCHANGED <<m_eventData, m_uniqueProducts, m_uniqueUsers, m_uniqueHosts,
                     m_eventYear, m_endTimeRow>>
    /\ Len(m_eventData') >= Len(m_eventData)
    /\ \A k \in 0..(NumEvents - 1) : At(m_eventData', k) = At(m_eventData, k)

\* The events whose row extractEvents has processed to its end.
Completed == IF pc = "failed" THEN 0..(NumEvents - 2) ELSE 0..(NumEvents - 1)

C29_OriginalStep ==
    /\ DownstreamReadOnly
    /\ \A k \in Completed' : ModifiedOnce(k)'

\* C29 as stated: the stages after extractEvents leave the event sequence, the
\* three registries, the ambient year and m_endTimeRow unchanged, and each
\* EventRecord is modified exactly once, by the year suffix appended right
\* after its creation, and never afterwards.
C29_Original == [][C29_OriginalStep]_vars

C29_Step ==
    /\ DownstreamReadOnly
    /\ \A k \in Completed' :
         IF EvKind(k)' \in YearStampedKinds THEN ModifiedOnce(k)' ELSE Unmodified(k)'

\* C29, amended: the stages after extractEvents leave the event sequence, the
\* three registries, the ambient year and m_endTimeRow unchanged; each OUT,
\* IN, DENY and SHUTDOWN EventRecord is modified exactly once, by the year
\* suffix appended right after its creation, and never afterwards, and a
\* START or PRODUCT EventRecord is never modified.
C29_DownstreamReadOnly == [][C29_Step]_vars

\* All stages ran over a START, an OUT, a DENY and a PRODUCT event, the last
\* of them the PRODUCT, and the tables of every stage are filled.
C29_Witness ==
    /\ pc = "constructed" /\ NumEvents = 4
    /\ { EvKind(k) : k \in 0..3 } = {S_START, S_OUT, S_DENY, S_PRODUCT}
    /\ EvKind(3) = S_PRODUCT /\ m_endTimeRow = 2
    /\ Len(m_usage) = 2 /\ Len(m_usageDurationu) = 2 /\ Len(m_usageDurationh) = 2
    /\ Len(m_deniedRequest) = 2
    /\ Unmodified(0) /\ Unmodified(3) /\ ModifiedOnce(1) /\ ModifiedOnce(2)

\* Every line of the input carries the tag "(rlm)"; the empty input has none.
OnlyRlmLines == \A i \in 1..Len(m_rawData) : Find(m_rawData[i], <<"(","r","l","m",")">>)

\* C30: findFileFormat returns with the format ReportLog or raises
\* InvalidFileFormatException, and never returns with Invalid or ISVLog, so
\* every later stage runs with ReportLog; a line tagged "(rlm)" never causes
\* the legacy rejection by itself, and an input of such lines only, or an
\* empty input, raises InvalidFileFormatException with the format Invalid.
C30_OnlyReportLogProceeds ==
    pc # "findFileFormat" =>
      /\ m_fileFormat \in {"ReportLog", "ISVLog", "Invalid"}
      /\ m_fileFormat # "ReportLog" <=> RaisedInvalidFormat
      /\ pc # "failed" => m_fileFormat = "ReportLog"
      /\ m_fileFormat = "ISVLog" => \E i \in 1..Len(m_rawData) : IsLegacyForm(m_rawData[i])
      /\ OnlyRlmLines => (RaisedInvalidFormat /\ m_fileFormat = "Invalid")

\* findFileFormat has thrown on an input of two lines tagged "(rlm)".
C30_Witness ==
    /\ RaisedInvalidFormat /\ m_fileFormat = "Invalid"
    /\ Len(m_rawData) = 2 /\ OnlyRlmLines

\* No handle is issued by a second OUT before the close of an earlier OUT
\* with the same handle.
NoReuse ==
    \A i, k \in OutRows :
      (i < k /\ EvHandle(i) = EvHandle(k)) => (FirstClose(i) # -1 /\ FirstClose(i) < k)

\* The IN at j checks in the checkout of the OUT at i: it has its handle and
\* no OUT or IN with that handle lies between them.
OwnCheckin(i, j) ==
    /\ i < j /\ EvKind(j) = S_IN /\ EvHandle(j) = EvHandle(i)
    /\ \A k \in (i + 1)..(j - 1) :
         ~(EvKind(k) \in {S_OUT, S_IN} /\ EvHandle(k) = EvHandle(i))

\* The OUT events whose close, as the passes compute it, is the event at j.
ClosedBy(j) == { i \in OutRows : CheckInRow(m_eventData, i) = j }

\* C31: if no handle is issued by a second OUT before the close of an earlier
\* OUT with the same handle, every IN event is the close of at most one OUT
\* event, and every OUT closed by an IN is closed by the IN that checks in
\* its own checkout.
C31_PairingNoReuse ==
    (HostPassDone /\ NoReuse) =>
      /\ \A j \in 0..(NumEvents - 1) : EvKind(j) = S_IN => Cardinality(ClosedBy(j)) <= 1
      /\ \A i \in OutRows :
           LET j == CheckInRow(m_eventData, i) IN
           (j # -1 /\ EvKind(j) = S_IN) =>
             /\ OwnCheckin(i, j)
             /\ RecordOf(m_usageDurationu, i)[2] = EvStamp(j)
             /\ RecordOf(m_usageDurationh, i)[2] = EvStamp(j)

\* A handle was checked out, checked in and checked out again: the first OUT
\* is closed by the IN, the second is not.
C31_Witness ==
    /\ HostPassDone /\ NoReuse
    /\ \E i, k \in OutRows :
         /\ i < k /\ EvHandle(i) = EvHandle(k)
         /\ ClosedBy(FirstClose(i)) = {i} /\ EvKind(FirstClose(i)) = S_IN
         /\ CheckInRow(m_eventData, k) = -1

\* The number of users that hold product p (counted from 0) in `live`.
Holders(live, p) == Cardinality({ u \in 1..Len(live) : live[u][p + 1] > 0 })

\* The last SHUTDOWN before the event at j, -1 when there is none.
LastShutdownBefore(j) ==
    LET ss == { k \in 0..(j - 1) : EvKind(k) = S_SHUTDOWN }
    IN  IF ss = {} THEN -1 ELSE CHOOSE k \in ss : \A q \in ss : q <= k

\* The OUT events of the (user, product) of the event at j since the last
\* SHUTDOWN before j, less the IN events that returned them.
NotYetReturned(j) ==
    LET same(kind) == { k \in (LastShutdownBefore(j) + 1)..(j - 1) :
                          /\ EvKind(k) = kind
                          /\ EvProduct(k) = EvProduct(j) /\ EvUser(k) = EvUser(j) }
    IN  Cardinality(same(S_OUT)) - Cardinality(same(S_IN))

\* Every IN event before index n returns a checkout that is still out.
EveryINReturns(n) ==
    \A j \in 0..(n - 1) : EvKind(j) = S_IN => NotYetReturned(j) > 0

\* The unique counts `unique` are bounded by the holders in `live`, and equal
\* to them after n events when every IN of these returned a checkout.
UniqueBounded(unique, live, n) ==
    \A p \in AllProducts :
      /\ unique[p + 1] <= Holders(live, p)
      /\ EveryINReturns(n) => unique[p + 1] = Holders(live, p)

\* The step replays an IN event into the snapshot that posts the unique
\* count 1 for a log that started with licenses checked out.
SynthesizedSnapshot ==
    /\ Replaying({S_IN}) /\ atoi(EvCount(row)) > 0
    /\ uniqueLicenseCountsByProduct'[getIndex(EvProduct(row), m_uniqueProducts) + 1] = 0

C32_Step ==
    /\ pc' = "getConcurrentUsage" =>
         UniqueBounded(uniqueLicenseCountsByProduct', licenseCountByProductAndUser', row')
    /\ (Replaying(SnapshotKinds) /\ ~SynthesizedSnapshot) =>
         /\ Len(m_usage') = Len(m_usage) + 1
         /\ UniqueBounded([p \in 1..Len(m_uniqueProducts) |->
                             atoi(UniqueCell(m_usage'[Len(m_usage')], p - 1))],
                          licenseCountByProductAndUser', row')

\* C32: in every state of the replay, and in every snapshot other than the
\* synthesized mid-session one, the unique count of each product is at most
\* the number of users whose live count of the product is above 0; when every
\* IN event is preceded, since the last SHUTDOWN, by a not-yet-returned OUT
\* of the same (user, product), the unique count equals that number.
C32_UniqueBound == [][C32_Step]_vars

\* Two users checked a product out and one returned it: one holder, unique
\* count 1, in the counters and in the snapshot of the IN.
C32_Witness ==
    /\ pc = "getConcurrentUsage" /\ row = 4 /\ EveryINReturns(row)
    /\ EvKind(1) = S_OUT /\ EvKind(2) = S_OUT /\ EvKind(3) = S_IN
    /\ EvUser(1) # EvUser(2) /\ EvProduct(1) = EvProduct(2)
    /\ LET p == getIndex(EvProduct(3), m_uniqueProducts)
       IN  /\ Holders(licenseCountByProductAndUser, p) = 1
           /\ uniqueLicenseCountsByProduct[p + 1] = 1
           /\ UniqueCell(m_usage[Len(m_usage)], p) = <<"1">>

\* Two events of 01/01 00:00 that follow each other with no year line between
\* them carry the same year.
SameYearAtMidnight ==
    \A k \in Completed :
      (/\ k >= 1 /\ IsJan1Midnight(k - 1) /\ IsJan1Midnight(k)
       /\ NoYearLineIn(EventRow(k - 1) + 1, EventRow(k) - 1)) =>
        YearOf(k) = YearOf(k - 1)

\* The date is of January 1st: the year it carries is the new year.
IsNewYearDate(date) ==
    LET parts == tokenizeString("/", date) IN
    Len(parts) = 3 /\ parts[1] = <<"0","1">> /\ parts[2] = <<"0","1">>

\* An event of 01/01 00:00 on the row right after a START record or a year
\* line of January 1st carries the year of that START or line.
YearSourceKept ==
    \A k \in Completed :
      (IsJan1Midnight(k) /\ EventRow(k) >= 1) =>
        LET r == EventRow(k) - 1 IN
        /\ (RowIsYearLine(r) /\ IsNewYearDate(At(At(m_allData, r), 0))) =>
             YearOf(k) = YearLineYear(r)
        /\ (k >= 1 /\ EventRow(k - 1) = r /\ EvKind(k - 1) = S_START
              /\ IsNewYearDate(At(At(m_eventData, k - 1), IndexDate))) =>
             YearOf(k) = DateParts(k - 1)[3]

\* C33 as stated: between two consecutive year sources (START record or year
\* line) the ambient year is incremented at most once: events of 01/01 00:00
\* that follow each other with no year source between them are stamped with
\* the same year, and an event of 01/01 00:00 that directly follows a START
\* or year line carrying the new year Y is stamped Y.
C33_SingleIncrement == SameYearAtMidnight /\ YearSourceKept

\* The cell of product p (counted from 0) in a snapshot row that shows the
\* reserved value in use.
ReservedCell(snap, p) == snap[5 + 5 * p]

\* The last OUT event before index j of the product, -1 if none.
LastOutOf(j, name) ==
    LET os == { k \in 0..(j - 1) : EvKind(k) = S_OUT /\ EvProduct(k) = name }
    IN  IF os = {} THEN -1 ELSE CHOOSE k \in os : \A q \in os : q <= k

\* The reserved value in use the replay holds for product p after the events
\* before index j.
ReservedAfter(j, p) ==
    LET k == LastOutOf(j, m_uniqueProducts[p + 1])
    IN  IF k = -1 THEN <<"0">> ELSE At(At(m_allData, EventRow(k)), 9)

C34_Step ==
    Replaying(AllKinds) =>
      /\ \A p \in AllProducts :
           IF EvKind(row) = S_OUT /\ EvProduct(row) = m_uniqueProducts[p + 1]
           THEN reservedLicenseUsageCount'[p + 1] = At(At(m_allData, EventRow(row)), 9)
           ELSE reservedLicenseUsageCount'[p + 1] = reservedLicenseUsageCount[p + 1]
      /\ EvKind(row) = S_SHUTDOWN =>
           /\ maxLicenseCountsByProduct' = maxLicenseCountsByProduct
           /\ maxreservedLicenseCountsByProduct' = maxreservedLicenseCountsByProduct
           /\ \A p \in AllProducts :
                /\ ReservedCell(m_usage'[Len(m_usage')], p) = ReservedAfter(row, p)
                /\ LimitCell(m_usage'[Len(m_usage')], p) = maxLicenseCountsByProduct[p + 1]
                /\ ReservedLimitCell(m_usage'[Len(m_usage')], p) =
                     maxreservedLicenseCountsByProduct[p + 1]

\* C34: the reserved value in use of a product changes only when an OUT event
\* of that product is replayed, and takes the reserved field of that OUT; IN,
\* SHUTDOWN, PRODUCT, START and DENY events leave it unchanged, so the
\* snapshot of a SHUTDOWN shows the reserved values of the last OUT of each
\* product, and the configured limits survive a SHUTDOWN unchanged.
C34_ReservedFrame == [][C34_Step]_vars

\* A SHUTDOWN was replayed after an OUT with the reserved field 1 and a
\* PRODUCT event: its snapshot shows the reserved value 1 and the limit 5.
C34_Witness ==
    /\ pc = "getConcurrentUsage" /\ row = 4
    /\ EvKind(3) = S_SHUTDOWN
    /\ \E i, j \in 1..2 : EvKind(i) = S_OUT /\ EvKind(j) = S_PRODUCT
    /\ \E p \in AllProducts :
         /\ ReservedCell(m_usage[Len(m_usage)], p) = <<"1">>
         /\ LimitCell(m_usage[Len(m_usage)], p) = <<"5">>
         /\ reservedLicenseUsageCount[p + 1] = <<"1">>

\* The rows extractEvents has processed.
Processed == IF pc = "extractEvents" THEN row ELSE Len(m_allData)

\* The records of one kind among the events, in their order.
RecordsOfKind(kind) ==
    LET IsOfKind(ev) == At(ev, IndexEvent) = kind
    IN  SelectSeq(m_eventData, IsOfKind)

\* The events are the event rows processed, one record each in file order,
\* and the side tables are the START, SHUTDOWN and DENY records among them.
EventsAreFilteredRows ==
    (pc = "extractEvents" \/ ExtractionDone) =>
      /\ NumEvents = Cardinality({ r \in 0..(Processed - 1) : RowIsEvent(r) })
      /\ \A k \in 0..(NumEvents - 1) :
           /\ EventRow(k) < Processed
           /\ EvKind(k) = At(At(m_allData, EventRow(k)), 0)
           /\ IsProjection(k)
      /\ m_startEvents = RecordsOfKind(S_START)
      /\ m_shutdownEvents = RecordsOfKind(S_SHUTDOWN)
      /\ m_denialEvents = RecordsOfKind(S_DENY)

C35_Step ==
    /\ EventsAreFilteredRows'
    /\ (pc = "extractEvents" /\ row < Len(m_allData) /\ ~RowIsEvent(row)) =>
         /\ pc' = "extractEvents" /\ row' = row + 1
         /\ UNCHANGED <<exception, m_eventData, m_startEvents, m_shutdownEvents,
                        m_denialEvents>>

\* C35: of the rows extractEvents has processed, a row yields exactly one
\* EventRecord if its first field is exactly OUT, IN, DENY, START, SHUTDOWN or
\* PRODUCT and none otherwise: empty rows and rows with another first field
\* are skipped without error; the records are in file order, and the start,
\* shutdown and denial tables hold exactly the START, SHUTDOWN and DENY
\* records in that order.
C35_OrderPreservingFilter == [][C35_Step]_vars

\* Extraction went over an empty row and a row that begins with "OUTS", and
\* the marker row: the one record is that of the START.
C35_Witness ==
    /\ ExtractionDone /\ Len(m_allData) = 4 /\ NumEvents = 1
    /\ At(m_allData, 2) = << >>
    /\ Len(At(m_allData, 3)) = 18 /\ At(At(m_allData, 3), 0) = <<"O","U","T","S">>
    /\ m_startEvents = m_eventData

\* ptime a is not later than ptime b.
NotLater(a, b) == a.day < b.day \/ (a.day = b.day /\ a.secs <= b.secs)

\* The events with a date and a time all have a valid timestamp, and none is
\* earlier than one before it.
TimestampsNonDecreasing ==
    \A j, k \in 0..(NumEvents - 1) :
      (EvKind(j) \in StampedKinds /\ EvKind(k) \in StampedKinds /\ j <= k) =>
        /\ EvTime(j).valid /\ EvTime(k).valid
        /\ NotLater(EvTime(j), EvTime(k))

\* The duration of the record of the OUT at i in the table is not negative.
DurationNotNegative(table, i) ==
    LET d == UsageDuration(m_eventData, i, m_endTimeRow) IN
    /\ d.valid /\ d.secs >= 0
    /\ RecordOf(table, i)[7] = DurationToString(d)
    /\ Head(RecordOf(table, i)[7]) # "-"

\* C36: whenever the OUT event at index i finds no closing IN or SHUTDOWN,
\* m_endTimeRow >= i, so the fallback timestamp is that of the OUT itself or
\* of a later event; for events whose stamped timestamps are non-decreasing,
\* the duration of every Duration Record (matched, closed by a SHUTDOWN or
\* fallback) is >= 0.
C36_FallbackNotBefore ==
    /\ ExtractionDone =>
         \A i \in OutRows : CheckInRow(m_eventData, i) = -1 => m_endTimeRow >= i
    /\ (HostPassDone /\ TimestampsNonDecreasing) =>
         \A i \in OutRows :
           /\ DurationNotNegative(m_usageDurationu, i)
           /\ DurationNotNegative(m_usageDurationh, i)

\* The last event is an OUT nothing closes: its fallback is its own row and
\* its duration 0, while an earlier unclosed OUT runs to it for 2 minutes.
C36_Witness ==
    /\ HostPassDone /\ TimestampsNonDecreasing /\ NumEvents = 4
    /\ EvKind(1) = S_OUT /\ EvKind(3) = S_OUT
    /\ CheckInRow(m_eventData, 1) = -1 /\ CheckInRow(m_eventData, 3) = -1
    /\ m_endTimeRow = 3
    /\ UsageDuration(m_eventData, 3, m_endTimeRow) = [valid |-> TRUE, secs |-> 0]
    /\ UsageDuration(m_eventData, 1, m_endTimeRow) = [valid |-> TRUE, secs |-> 120]

====
